---- MODULE Spec2Model ----
(***************************************************************************)
(* Model of the Jinjiang metadata plugin (src/__init__.py): the identify   *)
(* orchestrator, the search stage, the detail fan-out over the worker      *)
(* pool, the APP JSON detail pipeline with enrichment, and the HTML        *)
(* fallback parser.                                                        *)
(*                                                                         *)
(* Text is a sequence of Unicode code points (35 is '#', 32 is ' ').       *)
(* JSON object keys are ASCII and are written as strings.                  *)
(***************************************************************************)
EXTENDS Integers, Sequences, FiniteSets, TLC

\* ---------------------------------------------------------------------
\* Bounds of the model
\* ---------------------------------------------------------------------
\* largest configured concurrency limit below the pool's clamp; the search
\* endpoints answer with up to MaxBooks + 1 books
MaxBooks == 2
\* a server script lets 0..MaxFails JSON detail attempts fail before its
\* answer (or all but one, or all of them)
MaxFails == 1

\* ---------------------------------------------------------------------
\* Text helpers (Python str / re semantics on code point sequences)
\* ---------------------------------------------------------------------
Max(a, b) == IF a >= b THEN a ELSE b
Min(a, b) == IF a <= b THEN a ELSE b

\* re \s and str.strip() whitespace
IsSpace(c) ==
    c \in ({9, 10, 11, 12, 13, 28, 29, 30, 31, 32, 133, 160, 5760,
            8232, 8233, 8239, 8287, 12288} \cup (8192..8202))

\* re \w on str: alphanumerics of any script, and the underscore
IsWord(c) ==
    \/ c \in 48..57 \/ c \in 65..90 \/ c \in 97..122 \/ c = 95
    \/ c \in 19968..40959
    \/ c \in 65296..65305 \/ c \in 65313..65338 \/ c \in 65345..65370

SubSeqFrom(s, i) == SubSeq(s, i, Len(s))

StartsWith(s, p) == Len(s) >= Len(p) /\ SubSeq(s, 1, Len(p)) = p
EndsWith(s, p) == Len(s) >= Len(p) /\ SubSeq(s, Len(s) - Len(p) + 1, Len(s)) = p

RECURSIVE LStrip(_)
LStrip(s) == IF s # <<>> /\ IsSpace(s[1]) THEN LStrip(Tail(s)) ELSE s

RECURSIVE RStrip(_)
RStrip(s) ==
    IF s # <<>> /\ IsSpace(s[Len(s)]) THEN RStrip(SubSeq(s, 1, Len(s) - 1)) ELSE s

\* str.strip()
Strip(s) == RStrip(LStrip(s))

\* index of the first occurrence of c in s at or after i, 0 if none
RECURSIVE FindFrom(_, _, _)
FindFrom(s, i, c) ==
    IF i > Len(s) THEN 0
    ELSE IF s[i] = c THEN i ELSE FindFrom(s, i + 1, c)

\* str.replace(w, r) for a non-empty w: leftmost, non-overlapping
RECURSIVE Replace(_, _, _)
Replace(s, w, r) ==
    IF s = <<>> THEN <<>>
    ELSE IF StartsWith(s, w) THEN r \o Replace(SubSeqFrom(s, Len(w) + 1), w, r)
    ELSE <<s[1]>> \o Replace(Tail(s), w, r)

\* re.sub(r"\s+", ' ', s)
RECURSIVE CollapseSpaces(_)
CollapseSpaces(s) ==
    IF s = <<>> THEN <<>>
    ELSE IF IsSpace(s[1])
         THEN <<32>> \o CollapseSpaces(LStrip(s))
         ELSE <<s[1]>> \o CollapseSpaces(Tail(s))

\* [t for t in re.split(r"\s+", s) if t]
RECURSIVE TakeToken(_)
TakeToken(s) ==
    IF s = <<>> \/ IsSpace(s[1]) THEN <<>> ELSE <<s[1]>> \o TakeToken(Tail(s))

RECURSIVE Tokens(_)
Tokens(s) ==
    LET t == LStrip(s)
    IN  IF t = <<>> THEN <<>>
        ELSE LET w == TakeToken(t)
             IN  <<w>> \o Tokens(SubSeqFrom(t, Len(w) + 1))

\* ' '.join(parts)
RECURSIVE JoinSpace(_)
JoinSpace(parts) ==
    IF parts = <<>> THEN <<>>
    ELSE IF Len(parts) = 1 THEN parts[1]
    ELSE parts[1] \o <<32>> \o JoinSpace(Tail(parts))

InSeq(x, s) == \E i \in 1..Len(s) : s[i] = x

\* [t for t in ts if t]
RECURSIVE NonEmpty(_)
NonEmpty(ts) ==
    IF ts = <<>> THEN <<>>
    ELSE (IF ts[1] # <<>> THEN <<ts[1]>> ELSE <<>>) \o NonEmpty(Tail(ts))

\* ---------------------------------------------------------------------
\* normalize_query
\* ---------------------------------------------------------------------
full2half_none(u) == u

full2half(u) ==
    [i \in 1..Len(u) |->
        IF u[i] = 12288 THEN 32
        ELSE IF 65281 <= u[i] /\ u[i] <= 65374 THEN u[i] - 65248
        ELSE u[i]]

\* re.sub(open [^close]* close, '', s)
RECURSIVE RemoveBracketed(_, _, _)
RemoveBracketed(s, open, close) ==
    LET i == FindFrom(s, 1, open)
        j == IF i = 0 THEN 0 ELSE FindFrom(s, i + 1, close)
    IN  IF j = 0 THEN s
        ELSE SubSeq(s, 1, i - 1) \o RemoveBracketed(SubSeqFrom(s, j + 1), open, close)

MapChar(s, from, to) == [i \in 1..Len(s) |-> IF s[i] = from THEN to ELSE s[i]]

\* the characters step 4 keeps: \w, U+4E00-U+9FFF, U+3000-U+303F, - . : , ' and space
KeptChar(c) ==
    \/ IsWord(c)
    \/ c \in 19968..40959
    \/ c \in 12288..12351
    \/ c \in {45, 46, 58, 44, 39, 32}

\* re.sub(r"[^...]+", ' ', s): every maximal run of other characters becomes one space
RECURSIVE DropUnkept(_)
DropUnkept(s) ==
    IF s = <<>> THEN <<>>
    ELSE IF KeptChar(s[1]) THEN <<s[1]>> \o DropUnkept(Tail(s))
    ELSE IF Len(s) >= 2 /\ ~KeptChar(s[2]) THEN DropUnkept(Tail(s))
    ELSE <<32>> \o DropUnkept(Tail(s))

normalize_query(s) ==
    IF s = <<>> THEN s
    ELSE
      LET s1 == full2half(s)
          s2 == RemoveBracketed(
                  RemoveBracketed(
                    RemoveBracketed(
                      RemoveBracketed(s1, 40, 41), 91, 93), 65288, 65289), 12304, 12305)
          s3 == MapChar(MapChar(MapChar(
                  MapChar(MapChar(MapChar(MapChar(s2, 183, 32), 8226, 32), 12539, 32), 8230, 32),
                  65306, 58), 12290, 46), 65292, 44)
          s4 == DropUnkept(s3)
      IN  Strip(CollapseSpaces(s4))

\* ---------------------------------------------------------------------
\* generate_title_variations
\* ---------------------------------------------------------------------
stopwords ==
    << <<23436, 32467>>, <<23436, 26412>>, <<36830, 36733>>, <<30058, 22806>>,
       <<20840, 26412>>, <<116, 120, 116>>, <<20840, 25991>>, <<30058, 22806, 31687>> >>

RECURSIVE RemoveStopwords(_, _)
RemoveStopwords(s, ws) ==
    IF ws = <<>> THEN s
    ELSE RemoveStopwords(Replace(s, ws[1], <<32>>), Tail(ws))

\* sorted(tokens, key=len, reverse=True): stable, longest first
RECURSIVE InsertByLen(_, _)
InsertByLen(t, sorted) ==
    IF sorted = <<>> THEN <<t>>
    ELSE IF Len(sorted[1]) >= Len(t) THEN <<sorted[1]>> \o InsertByLen(t, Tail(sorted))
    ELSE <<t>> \o sorted

SortKeepOrder(ts) == ts

RECURSIVE SortByLenDesc(_)
SortByLenDesc(ts) ==
    IF ts = <<>> THEN <<>>
    ELSE LET rest == SortByLenDesc(SubSeq(ts, 1, Len(ts) - 1))
         IN  InsertByLen(ts[Len(ts)], rest)

\* tokens[:5] without the limit
FirstTokensAll(tokens) == tokens

\* tokens[:5]
FirstTokens(tokens) == SubSeq(tokens, 1, Min(5, Len(tokens)))

RECURSIVE AppendTokens(_, _)
AppendTokens(variations, ts) ==
    IF ts = <<>> THEN variations
    ELSE IF Len(ts[1]) >= 2 /\ ~InSeq(ts[1], variations)
         THEN AppendTokens(Append(variations, ts[1]), Tail(ts))
         ELSE AppendTokens(variations, Tail(ts))

generate_title_variations(cleaned_title) ==
    IF cleaned_title = <<>> THEN <<>>
    ELSE
      LET short  == Strip(CollapseSpaces(RemoveStopwords(cleaned_title, stopwords)))
          first  == IF short # <<>> /\ short # cleaned_title THEN <<short>> ELSE <<>>
          tokens == SortByLenDesc(Tokens(cleaned_title))
      IN  AppendTokens(first, FirstTokens(tokens))

\* ---------------------------------------------------------------------
\* JSON values (json.loads results), tagged: "s" text, "n" number,
\* "b" boolean, "z" null/None, "l" list, "o" object, "x" unparseable body
\* ---------------------------------------------------------------------
JStr(s)  == [t |-> "s", v |-> s]
JNum(n)  == [t |-> "n", v |-> n]
JBool(b) == [t |-> "b", v |-> b]
JNull    == [t |-> "z", v |-> 0]
JList(l) == [t |-> "l", v |-> l]
JObj(f)  == [t |-> "o", v |-> f]
JBad     == [t |-> "x", v |-> 0]
JEmpty   == JStr(<<>>)

IsDict(j) == j.t = "o"
IsList(j) == j.t = "l"
IsStr(j)  == j.t = "s"

\* Python truth value
Truthy(j) ==
    CASE j.t = "s" -> j.v # <<>>
      [] j.t = "n" -> j.v # 0
      [] j.t = "b" -> j.v
      [] j.t = "l" -> j.v # <<>>
      [] j.t = "o" -> DOMAIN j.v # {}
      [] OTHER     -> FALSE

HasKey(j, k) == IsDict(j) /\ k \in DOMAIN j.v

\* dict.get(k)
Get(j, k) == IF HasKey(j, k) THEN j.v[k] ELSE JNull

\* a or b
Or(a, b) == IF Truthy(a) THEN a ELSE b

RECURSIVE IntToText(_)
IntToText(n) ==
    IF n < 10 THEN <<48 + n>> ELSE IntToText(n \div 10) \o <<48 + (n % 10)>>

\* ','.join(parts) and friends
RECURSIVE Join(_, _)
Join(parts, sep) ==
    IF parts = <<>> THEN <<>>
    ELSE IF Len(parts) = 1 THEN parts[1]
    ELSE parts[1] \o sep \o Join(Tail(parts), sep)

\* str(value); a dict is rendered as "{}" or "{...}" (its keys are not text here)
RECURSIVE PyStr(_)
PyStr(j) ==
    CASE j.t = "s" -> j.v
      [] j.t = "n" -> IF j.v < 0 THEN <<45>> \o IntToText(0 - j.v) ELSE IntToText(j.v)
      [] j.t = "b" -> IF j.v THEN <<84, 114, 117, 101>> ELSE <<70, 97, 108, 115, 101>>
      [] j.t = "l" ->
            <<91>> \o Join([i \in 1..Len(j.v) |->
                               IF IsStr(j.v[i]) THEN <<39>> \o j.v[i].v \o <<39>>
                               ELSE PyStr(j.v[i])], <<44, 32>>) \o <<93>>
      [] j.t = "o" -> IF DOMAIN j.v = {} THEN <<123, 125>> ELSE <<123, 8230, 125>>
      [] OTHER     -> <<78, 111, 110, 101>>

\* re.sub(r'<[^>]+>', '', s)
RECURSIVE StripTags(_)
StripTags(s) ==
    IF s = <<>> THEN <<>>
    ELSE IF s[1] = 60 /\ Len(s) >= 2 /\ s[2] # 62 /\ FindFrom(s, 3, 62) # 0
         THEN StripTags(SubSeqFrom(s, FindFrom(s, 3, 62) + 1))
         ELSE <<s[1]>> \o StripTags(Tail(s))

\* html_to_text, on the regular-expression path taken when html2text is not installed
html_to_text(html) ==
    IF html = <<>> THEN <<>> ELSE Strip(CollapseSpaces(StripTags(html)))

\* str.lower() on the object keys of the model that are not already lower case
LowerTable ==
    ("AUTHOR" :> "author") @@ ("Author" :> "author") @@ ("BOOKNAME" :> "bookname") @@
    ("BookName" :> "bookname") @@ ("NovelName" :> "novelname") @@
    ("TITLE" :> "title") @@ ("Title" :> "title") @@
    ("authorName" :> "authorname") @@
    ("authorNames" :> "authornames") @@ ("bookId" :> "bookid") @@
    ("bookName" :> "bookname") @@ ("chapterCount" :> "chaptercount") @@
    ("coStar" :> "costar") @@ ("coverImg" :> "coverimg") @@
    ("coverUrl" :> "coverurl") @@ ("createTime" :> "createtime") @@
    ("favoriteCount" :> "favoritecount") @@ ("isSign" :> "issign") @@
    ("leaveContent" :> "leavecontent") @@ ("leaveDate" :> "leavedate") @@
    ("leaveDateBack" :> "leavedateback") @@ ("leaveDateStr" :> "leavedatestr") @@
    ("localImg" :> "localimg") @@ ("novelClass" :> "novelclass") @@
    ("novelCover" :> "novelcover") @@ ("novelId" :> "novelid") @@
    ("novelIntro" :> "novelintro") @@ ("novelIntroShort" :> "novelintroshort") @@
    ("novelIntroShortHtml" :> "novelintroshorthtml") @@
    ("novelLeave" :> "novelleave") @@ ("novelName" :> "novelname") @@
    ("novelScore" :> "novelscore") @@ ("novelSize" :> "novelsize") @@
    ("novelSizeShow" :> "novelsizeshow") @@ ("novelStyle" :> "novelstyle") @@
    ("novelTags" :> "noveltags") @@ ("novelnameFormat" :> "novelnameformat") @@
    ("novelnameFormatHtml" :> "novelnameformathtml") @@
    ("novipClick" :> "novipclick") @@ ("novipClicks" :> "novipclicks") @@
    ("nutritionNovel" :> "nutritionnovel") @@ ("originalCover" :> "originalcover") @@
    ("publishTime" :> "publishtime") @@ ("publishedDate" :> "publisheddate") @@
    ("vipStart" :> "vipstart") @@
    ("wordCount" :> "wordcount") @@ ("writerName" :> "writername")

Lower(k) == IF k \in DOMAIN LowerTable THEN LowerTable[k] ELSE k

\* key_variants(k) for the candidate keys the builder uses, in one fixed order
key_variants(k) ==
    CASE k = "bookName"     -> <<"bookName", "bookname">>
      [] k = "book_name"    -> <<"book_name", "bookname", "bookName">>
      [] k = "novelName"    -> <<"novelName", "novelname">>
      [] k = "novelname_format" ->
            <<"novelname_format", "novelnameformat", "novelnameFormat">>
      [] k = "novelname_format_html" ->
            <<"novelname_format_html", "novelnameformathtml", "novelnameFormatHtml">>
      [] k = "authorName"   -> <<"authorName", "authorname">>
      [] k = "writerName"   -> <<"writerName", "writername">>
      [] k = "author_name"  -> <<"author_name", "authorname", "authorName">>
      [] k = "authorNames"  -> <<"authorNames", "authornames">>
      [] k = "novelCover"   -> <<"novelCover", "novelcover">>
      [] k = "originalCover" -> <<"originalCover", "originalcover">>
      [] k = "cover_img"    -> <<"cover_img", "coverimg", "coverImg">>
      [] k = "coverUrl"     -> <<"coverUrl", "coverurl">>
      [] k = "cover_url"    -> <<"cover_url", "coverurl", "coverUrl">>
      [] k = "localImg"     -> <<"localImg", "localimg">>
      [] k = "createTime"   -> <<"createTime", "createtime">>
      [] k = "publish_time" -> <<"publish_time", "publishtime", "publishTime">>
      [] k = "wordCount"    -> <<"wordCount", "wordcount">>
      [] k = "chapterCount" -> <<"chapterCount", "chaptercount">>
      [] k = "vip_start"    -> <<"vip_start", "vipstart", "vipStart">>
      [] k = "vipStart"     -> <<"vipStart", "vipstart">>
      [] OTHER              -> <<k>>

\* the keys of obj whose lower-case form is lk (lowmap[lk])
LowKeys(obj, lk) == {kk \in DOMAIN obj.v : Lower(kk) = lk}

\* first truthy obj[cand] over the keys and, per key, its variants
RECURSIVE ExactPass(_, _)
ExactPass(obj, keys) ==
    IF keys = <<>> THEN JEmpty
    ELSE LET vs   == key_variants(keys[1])
             hits == {i \in 1..Len(vs) : HasKey(obj, vs[i]) /\ Truthy(obj.v[vs[i]])}
         IN  IF hits # {}
             THEN obj.v[vs[CHOOSE i \in hits : \A h \in hits : i <= h]]
             ELSE ExactPass(obj, Tail(keys))

\* first truthy obj[lowmap[k.lower()]] over the keys
RECURSIVE LowerPass(_, _)
LowerPass(obj, keys) ==
    IF keys = <<>> THEN JEmpty
    ELSE LET ks == LowKeys(obj, Lower(keys[1]))
         IN  IF ks # {} /\ Truthy(obj.v[CHOOSE kk \in ks : TRUE])
             THEN obj.v[CHOOSE kk \in ks : TRUE]
             ELSE LowerPass(obj, Tail(keys))

\* a lookup that stays on the object it is given
_pick_from_flat(obj, keys) ==
    IF IsDict(obj) THEN ExactPass(obj, keys) ELSE JEmpty

\* parse_app_book_data._pick_from
RECURSIVE _pick_from(_, _)
RECURSIVE PickNested(_, _, _)
PickNested(obj, nests, keys) ==
    IF nests = <<>> THEN JEmpty
    ELSE LET nested == Get(obj, nests[1])
             v == IF IsDict(nested) THEN _pick_from(nested, keys)
                  ELSE IF IsList(nested) /\ nested.v # <<>>
                       THEN _pick_from(nested.v[1], keys)
                  ELSE JEmpty
         IN  IF Truthy(v) THEN v ELSE PickNested(obj, Tail(nests), keys)

_pick_from(obj, keys) ==
    IF ~Truthy(obj) \/ keys = <<>> THEN JEmpty
    ELSE
      LET e == IF IsDict(obj) THEN ExactPass(obj, keys) ELSE JEmpty
          l == IF IsDict(obj) THEN LowerPass(obj, keys) ELSE JEmpty
          n == PickNested(obj, <<"book", "novel", "data", "result">>, keys)
      IN  IF Truthy(e) THEN e
          ELSE IF Truthy(l) THEN l
          ELSE IF Truthy(n) THEN n
          ELSE IF IsList(obj) /\ obj.v # <<>> THEN _pick_from(obj.v[1], keys)
          ELSE JEmpty

\* ---------------------------------------------------------------------
\* parse_search_keyword
\* ---------------------------------------------------------------------
SEARCH_TYPE_MAP ==
    [book |-> 1, author |-> 2, protagonist |-> 4, supporting |-> 5, other |-> 6, id |-> 7]

\* every one-digit code taken as a known search type
AnyTypeValue == 0..9

SearchTypeValues == {SEARCH_TYPE_MAP[k] : k \in DOMAIN SEARCH_TYPE_MAP}

\* re.I on the Latin letters
LowerChar(c) == IF c \in 65..90 THEN c + 32 ELSE c
LowerText(s) == [i \in 1..Len(s) |-> LowerChar(s[i])]

\* re \d: ASCII and full-width decimal digits
IsDigit(c) == c \in 48..57 \/ c \in 65296..65305
DigitVal(c) == IF c \in 48..57 THEN c - 48 ELSE c - 65296

RECURSIVE DigitRun(_)
DigitRun(s) == IF s # <<>> /\ IsDigit(s[1]) THEN <<s[1]>> \o DigitRun(Tail(s)) ELSE <<>>

RECURSIVE TextToInt(_)
TextToInt(d) ==
    IF d = <<>> THEN 0
    ELSE 10 * TextToInt(SubSeq(d, 1, Len(d) - 1)) + DigitVal(d[Len(d)])

\* q matches ^(?:p)... ignoring case: the text after the prefix p, or <<-1>> if p does not match
NoMatch == <<-1>>
AfterPrefixCI(q, p) ==
    IF Len(q) >= Len(p) /\ LowerText(SubSeq(q, 1, Len(p))) = LowerText(p)
    THEN SubSeqFrom(q, Len(p) + 1) ELSE NoMatch

\* r matches \s*[:=]\s*(\d+)\s*(.*)$ : <<digits, rest>>, or NoMatch
TypeBody(r) ==
    IF r = NoMatch THEN NoMatch
    ELSE LET r1 == LStrip(r)
         IN  IF r1 = <<>> \/ r1[1] \notin {58, 61} THEN NoMatch
             ELSE LET r2 == LStrip(Tail(r1))
                      d  == DigitRun(r2)
                  IN  IF d = <<>> THEN NoMatch
                      ELSE <<d, SubSeqFrom(r2, Len(d) + 1)>>

\* re.match(r'^(?:t|type)\s*[:=]\s*(\d+)\s*(.*)$', q, re.I)
TypeMatch(q) ==
    LET a == TypeBody(AfterPrefixCI(q, <<116>>))
    IN  IF a # NoMatch THEN a ELSE TypeBody(AfterPrefixCI(q, <<116, 121, 112, 101>>))

\* r matches \s*[:(fullwidth colon)]\s*(.+)$ : group(1).strip(), or NoMatch
LabelBody(r) ==
    IF r = NoMatch THEN NoMatch
    ELSE LET r1 == LStrip(r)
         IN  IF r1 = <<>> \/ r1[1] \notin {58, 65306} \/ Len(r1) < 2 THEN NoMatch
             ELSE Strip(Tail(r1))

\* re.match(r'^(?:l1|l2|...)\s*[:(fullwidth colon)]\s*(.+)$', q, re.I) over the labels in order
RECURSIVE LabelMatch(_, _)
LabelMatch(q, labels) ==
    IF labels = <<>> THEN NoMatch
    ELSE LET m == LabelBody(AfterPrefixCI(q, labels[1]))
         IN  IF m # NoMatch THEN m ELSE LabelMatch(q, Tail(labels))

\* str.strip("#")
RECURSIVE StripHash(_)
StripHash(s) ==
    IF s # <<>> /\ s[1] = 35 THEN StripHash(Tail(s))
    ELSE IF s # <<>> /\ s[Len(s)] = 35 THEN StripHash(SubSeq(s, 1, Len(s) - 1))
    ELSE s

\* q.startswith(p + "#") and q.endswith("#")
Bracketed(q, p) == StartsWith(q, p \o <<35>>) /\ EndsWith(q, <<35>>)
\* q[len(p + "#"):-1].strip()
BracketInner(q, p) == Strip(SubSeq(q, Len(p) + 2, Len(q) - 1))

\* the alternations of the five label regexes
PrefixLabels ==
    [author      |-> << <<20316, 32773>>, <<97, 117, 116, 104, 111, 114>> >>,
     protagonist |-> << <<20027, 35282>>, <<112, 114, 111, 116, 97, 103, 111, 110, 105, 115, 116>> >>,
     supporting  |-> << <<37197, 35282>>, <<115, 117, 112, 112, 111, 114, 116, 105, 110, 103>> >>,
     other       |-> << <<20854, 23427>>, <<20854, 20182>>, <<111, 116, 104, 101, 114>> >>,
     id          |-> << <<73, 68>>, <<25991, 31456, 73, 68>>, <<105, 100>> >>]

\* returns <<keyword, search_type>>
parse_search_keyword(query) ==
    IF query = <<>> THEN <<query, SEARCH_TYPE_MAP.book>>
    ELSE
      LET q  == Strip(query)
          tm == TypeMatch(q)
          tnum == TextToInt(tm[1])
          rest == Strip(tm[2])
      IN  IF tm # NoMatch /\ tnum \in SearchTypeValues
            THEN <<IF rest # <<>> THEN rest ELSE query, tnum>>
          ELSE IF LabelMatch(q, PrefixLabels.author) # NoMatch
            THEN <<LabelMatch(q, PrefixLabels.author), SEARCH_TYPE_MAP.author>>
          ELSE IF LabelMatch(q, PrefixLabels.protagonist) # NoMatch
            THEN <<LabelMatch(q, PrefixLabels.protagonist), SEARCH_TYPE_MAP.protagonist>>
          ELSE IF LabelMatch(q, PrefixLabels.supporting) # NoMatch
            THEN <<LabelMatch(q, PrefixLabels.supporting), SEARCH_TYPE_MAP.supporting>>
          ELSE IF LabelMatch(q, PrefixLabels.other) # NoMatch
            THEN <<LabelMatch(q, PrefixLabels.other), SEARCH_TYPE_MAP.other>>
          ELSE IF LabelMatch(q, PrefixLabels.id) # NoMatch
            THEN <<LabelMatch(q, PrefixLabels.id), SEARCH_TYPE_MAP.id>>
          ELSE IF StartsWith(q, <<35>>) /\ EndsWith(q, <<35>>)
            THEN <<Strip(StripHash(q)), SEARCH_TYPE_MAP.author>>
          ELSE IF Bracketed(q, <<20027, 35282>>)
            THEN <<BracketInner(q, <<20027, 35282>>), SEARCH_TYPE_MAP.protagonist>>
          ELSE IF Bracketed(q, <<37197, 35282>>)
            THEN <<BracketInner(q, <<37197, 35282>>), SEARCH_TYPE_MAP.supporting>>
          ELSE IF Bracketed(q, <<20854, 20182>>)
            THEN <<BracketInner(q, <<20854, 20182>>), SEARCH_TYPE_MAP.other>>
          ELSE IF Bracketed(q, <<73, 68>>)
            THEN <<BracketInner(q, <<73, 68>>), SEARCH_TYPE_MAP.id>>
          ELSE <<query, SEARCH_TYPE_MAP.book>>

\* ---------------------------------------------------------------------
\* JinjiangBookSearcher.extract_sid_from_cookie
\* ---------------------------------------------------------------------
\* the first index from i at which w begins, 0 when there is none
RECURSIVE FindText(_, _, _)
FindText(s, w, i) ==
    IF i + Len(w) - 1 > Len(s) THEN 0
    ELSE IF SubSeq(s, i, i + Len(w) - 1) = w THEN i
    ELSE FindText(s, w, i + 1)

\* [^;\s]+ or [^;]+ from index i: the longest run it takes
RECURSIVE ValueRun(_, _, _)
ValueRun(s, i, stop_at_space) ==
    IF i > Len(s) \/ s[i] = 59 \/ (stop_at_space /\ IsSpace(s[i])) THEN <<>>
    ELSE <<s[i]>> \o ValueRun(s, i + 1, stop_at_space)

\* re.search(name + "(...+)", c).group(1): the value after the leftmost
\* occurrence of name that is followed by a value; <<>> when none matches
RECURSIVE FieldValue(_, _, _, _)
FieldValue(c, name, i, stop_at_space) ==
    LET p == FindText(c, name, i)
    IN  IF p = 0 THEN <<>>
        ELSE IF ValueRun(c, p + Len(name), stop_at_space) # <<>>
             THEN ValueRun(c, p + Len(name), stop_at_space)
             ELSE FieldValue(c, name, p + 1, stop_at_space)

IsHex(c) == c \in 48..57 \/ c \in 65..70 \/ c \in 97..102
HexVal(c) == IF c \in 48..57 THEN c - 48 ELSE IF c \in 65..70 THEN c - 55 ELSE c - 87

\* urllib.parse.unquote: %XX becomes the character of the byte; a byte
\* that is no UTF-8 text on its own becomes U+FFFD
RECURSIVE unquote(_)
unquote(s) ==
    IF s = <<>> THEN <<>>
    ELSE IF s[1] = 37 /\ Len(s) >= 3 /\ IsHex(s[2]) /\ IsHex(s[3])
         THEN LET b == 16 * HexVal(s[2]) + HexVal(s[3])
              IN  <<IF b < 128 THEN b ELSE 65533>> \o unquote(SubSeq(s, 4, Len(s)))
         ELSE <<s[1]>> \o unquote(Tail(s))

NoQuoteIn(s) == \A i \in 1..Len(s) : s[i] \notin {34, 92} /\ s[i] >= 32
IsJsonInt(s) ==
    /\ s # <<>>
    /\ \A i \in 1..Len(s) : s[i] \in 48..57
    /\ (Len(s) > 1 => s[1] # 48)

\* json.loads of a JJSESS text: an object of one string member (its keys
\* are texts), a string or an integer; JBad stands for the exception
JsonLoads(raw) ==
    LET n == Len(raw)
        q == FindText(raw, <<34, 58, 34>>, 3)
    IN  IF n >= 2 /\ raw[1] = 34 /\ raw[n] = 34 /\ NoQuoteIn(SubSeq(raw, 2, n - 1))
        THEN JStr(SubSeq(raw, 2, n - 1))
        ELSE IF IsJsonInt(raw) THEN JNum(TextToInt(raw))
        ELSE IF /\ n >= 7 /\ SubSeq(raw, 1, 2) = <<123, 34>> /\ SubSeq(raw, n - 1, n) = <<34, 125>>
                /\ q # 0 /\ q + 2 <= n - 1
                /\ NoQuoteIn(SubSeq(raw, 3, q - 1)) /\ NoQuoteIn(SubSeq(raw, q + 3, n - 2))
        THEN JObj((SubSeq(raw, 3, q - 1) :> JStr(SubSeq(raw, q + 3, n - 2))))
        ELSE JBad

TxtKeySid    == <<115, 105, 100>>
TxtKeySidkey == <<115, 105, 100, 107, 101, 121>>
TxtKeyToken  == <<116, 111, 107, 101, 110>>

\* for key in ('sid', 'sidkey', 'token'): the first member that is truthy
RECURSIVE FirstSessionKey(_, _)
FirstSessionKey(j, ks) ==
    IF ks = <<>> THEN <<>>
    ELSE IF HasKey(j, ks[1]) /\ Truthy(Get(j, ks[1])) THEN Get(j, ks[1]).v
    ELSE FirstSessionKey(j, Tail(ks))

\* [\w-]+ from index i
RECURSIVE WordDashRun(_, _)
WordDashRun(s, i) ==
    IF i > Len(s) \/ ~(IsWord(s[i]) \/ s[i] = 45) THEN <<>>
    ELSE <<s[i]>> \o WordDashRun(s, i + 1)

AllNonWord(s, i, n) == \A k \in i..(i + n - 1) : k <= Len(s) /\ ~IsWord(s[k])

\* '?"?([\w-]+) at index i: the quotes are taken when the match allows it
QuotedWord(s, i) ==
    LET q1 == IF i <= Len(s) /\ s[i] = 39 THEN 1 ELSE 0
        q2(a) == IF i + a <= Len(s) /\ s[i + a] = 34 THEN 1 ELSE 0
    IN  IF WordDashRun(s, i + q1 + q2(q1)) # <<>> THEN WordDashRun(s, i + q1 + q2(q1))
        ELSE IF WordDashRun(s, i + q1) # <<>> THEN WordDashRun(s, i + q1)
        ELSE IF WordDashRun(s, i + q2(0)) # <<>> THEN WordDashRun(s, i + q2(0))
        ELSE WordDashRun(s, i)

\* \W*'?"?([\w-]+) at index i, the longest \W* first
AfterSep(s, i) ==
    LET ok == {b \in 0..(Len(s) - i + 1) : AllNonWord(s, i, b) /\ QuotedWord(s, i + b) # <<>>}
    IN  IF ok = {} THEN <<>>
        ELSE QuotedWord(s, i + (CHOOSE b \in ok : \A x \in ok : x <= b))

\* \W*[:=]\W*'?"?([\w-]+) at index i, the longest \W* first
SidkeyAt(s, i) ==
    LET ok == {a \in 0..(Len(s) - i) :
                  /\ AllNonWord(s, i, a) /\ s[i + a] \in {58, 61}
                  /\ AfterSep(s, i + a + 1) # <<>>}
    IN  IF ok = {} THEN <<>>
        ELSE AfterSep(s, i + (CHOOSE a \in ok : \A x \in ok : x <= a) + 1)

\* re.search(r"sidkey\W*[:=]\W*'?\"?([\w-]+)'?\"?", raw).group(1)
RECURSIVE SidkeyValue(_, _)
SidkeyValue(raw, i) ==
    LET p == FindText(raw, TxtKeySidkey, i)
    IN  IF p = 0 THEN <<>>
        ELSE IF SidkeyAt(raw, p + 6) # <<>> THEN SidkeyAt(raw, p + 6)
        ELSE SidkeyValue(raw, p + 1)

\* lines 320-335: the session id a JJSESS field holds
FromJjsess(raw) ==
    IF JsonLoads(raw) = JBad THEN SidkeyValue(raw, 1)
    ELSE FirstSessionKey(JsonLoads(raw), <<TxtKeySid, TxtKeySidkey, TxtKeyToken>>)

\* jinjiang_login_cookie = None
NoCookie == <<-1>>

\* the session id of the login cookie; <<>> stands for None, which the
\* callers test with `not self.sid`
extract_sid_from_cookie(c) ==
    IF c = NoCookie \/ c = <<>> THEN <<>>
    ELSE IF FieldValue(c, TxtKeySid \o <<61>>, 1, TRUE) # <<>>
         THEN FieldValue(c, TxtKeySid \o <<61>>, 1, TRUE)
    ELSE IF FieldValue(c, TxtKeyToken \o <<61>>, 1, TRUE) # <<>>
         THEN unquote(FieldValue(c, TxtKeyToken \o <<61>>, 1, TRUE))
    ELSE IF FieldValue(c, <<98, 98, 115>> \o TxtKeyToken \o <<61>>, 1, TRUE) # <<>>
         THEN unquote(FieldValue(c, <<98, 98, 115>> \o TxtKeyToken \o <<61>>, 1, TRUE))
    ELSE IF FieldValue(c, <<74, 74, 83, 69, 83, 83, 61>>, 1, FALSE) # <<>>
         THEN FromJjsess(unquote(FieldValue(c, <<74, 74, 83, 69, 83, 83, 61>>, 1, FALSE)))
    ELSE <<>>

\* ---------------------------------------------------------------------
\* HTTP responses: urlopen either raises (exception, timeout) or answers
\* with a status and a body; a JSON body is the value json.loads gives,
\* JBad when json.loads raises
\* ---------------------------------------------------------------------
RespExc(kind)      == [kind |-> kind, status |-> 0, body |-> JBad]
RespOf(status, b)  == [kind |-> "response", status |-> status, body |-> b]
StatusOk(r)        == r.kind = "response" /\ r.status \in {200, 201}
\* data = json.loads(content), None when it raises
LoadsOrNone(b)     == IF b.t = "x" THEN JNull ELSE b

\* ---------------------------------------------------------------------
\* fetch_and_merge_other_info
\* ---------------------------------------------------------------------
\* the book dict as the object pick() searches
BookObj(book) ==
    JObj([id |-> JStr(book.id), title |-> JStr(book.title),
          authors |-> JList([i \in 1..Len(book.authors) |-> JStr(book.authors[i])]),
          description_html |-> JStr(book.description_html),
          description |-> JStr(book.description),
          tags |-> JList(book.tags), word_count |-> book.word_count,
          comments |-> book.comments])

\* per key: exact match, then case-insensitive match
RECURSIVE PickKeys(_, _)
PickKeys(obj, keys) ==
    IF keys = <<>> THEN JEmpty
    ELSE LET k  == keys[1]
             ks == LowKeys(obj, Lower(k))
         IN  IF HasKey(obj, k) /\ Truthy(obj.v[k]) THEN obj.v[k]
             ELSE IF ks # {} /\ Truthy(obj.v[CHOOSE kk \in ks : TRUE])
                  THEN obj.v[CHOOSE kk \in ks : TRUE]
             ELSE PickKeys(obj, Tail(keys))

\* fetch_and_merge_other_info.pick
RECURSIVE pick(_, _)
RECURSIVE PickOneKey(_, _)
PickOneKey(obj, k) ==
    IF ~Truthy(obj) THEN JEmpty
    ELSE IF IsList(obj) THEN PickOneKey(obj.v[1], k)
    ELSE IF ~IsDict(obj) THEN JEmpty
    ELSE IF Truthy(PickKeys(obj, <<k>>)) THEN PickKeys(obj, <<k>>)
    ELSE Or(Or(PickOneKey(Get(obj, "data"), k), PickOneKey(Get(obj, "a"), k)),
            Or(PickOneKey(Get(obj, "novel"), k), PickOneKey(Get(obj, "result"), k)))

RECURSIVE pick_key_major(_, _)
pick_key_major(obj, keys) ==
    IF keys = <<>> THEN JEmpty
    ELSE IF Truthy(PickOneKey(obj, keys[1])) THEN PickOneKey(obj, keys[1])
    ELSE pick_key_major(obj, Tail(keys))

RECURSIVE PickNest(_, _, _)
PickNest(obj, nests, keys) ==
    IF nests = <<>> THEN JEmpty
    ELSE LET nested == Get(obj, nests[1])
             v == IF Truthy(nested) THEN pick(nested, keys) ELSE JEmpty
         IN  IF Truthy(v) THEN v ELSE PickNest(obj, Tail(nests), keys)

pick(obj, keys) ==
    IF ~Truthy(obj) THEN JEmpty
    ELSE
      LET d == IF IsDict(obj) THEN PickKeys(obj, keys) ELSE JEmpty
          n == IF IsDict(obj) THEN PickNest(obj, <<"data", "a", "novel", "result">>, keys)
               ELSE JEmpty
      IN  IF Truthy(d) THEN d
          ELSE IF Truthy(n) THEN n
          ELSE IF IsList(obj) /\ obj.v # <<>> THEN pick(obj.v[1], keys)
          ELSE JEmpty

\* fetch_and_merge_other_info.pick_any over the sources in priority order
RECURSIVE pick_any(_, _)
pick_any(sources, keys) ==
    IF sources = <<>> THEN JEmpty
    ELSE LET val == pick(sources[1], keys)
         IN  IF IsStr(val)
             THEN IF Strip(val.v) # <<>> THEN JStr(Strip(val.v))
                  ELSE pick_any(Tail(sources), keys)
             ELSE val

\* order-preserving de-duplication: for t in merged: if t and t not in seen
RECURSIVE Uniq(_, _)
Uniq(merged, seen) ==
    IF merged = <<>> THEN <<>>
    ELSE IF Truthy(merged[1]) /\ ~InSeq(merged[1], seen)
         THEN <<merged[1]>> \o Uniq(Tail(merged), Append(seen, merged[1]))
         ELSE Uniq(Tail(merged), seen)

\* re.split(r'[,&/;(fullwidth comma)(ideographic comma)\s]+', text), stripped, non-empty
IsDelim(c) == c \in {44, 38, 47, 59, 65292, 12289} \/ IsSpace(c)

RECURSIVE TakeField(_)
TakeField(s) ==
    IF s = <<>> \/ IsDelim(s[1]) THEN <<>> ELSE <<s[1]>> \o TakeField(Tail(s))

RECURSIVE SplitDelims(_)
SplitDelims(s) ==
    IF s = <<>> THEN <<>>
    ELSE IF IsDelim(s[1]) THEN SplitDelims(Tail(s))
    ELSE LET w == TakeField(s)
         IN  <<w>> \o SplitDelims(SubSeqFrom(s, Len(w) + 1))

\* tags_raw.split(','), stripped, non-empty
RECURSIVE TakeToComma(_)
TakeToComma(s) ==
    IF s = <<>> \/ s[1] = 44 THEN <<>> ELSE <<s[1]>> \o TakeToComma(Tail(s))

RECURSIVE SplitComma(_)
SplitComma(s) ==
    IF s = <<>> THEN <<>>
    ELSE LET w    == TakeToComma(s)
             rest == IF Len(w) < Len(s) THEN SplitComma(SubSeqFrom(s, Len(w) + 2)) ELSE <<>>
         IN  IF Strip(w) # <<>> THEN <<Strip(w)>> \o rest ELSE rest

TextsToJ(ts) == [i \in 1..Len(ts) |-> JStr(ts[i])]

\* the labels and markers of the description block
Label ==
    [class       |-> <<25991, 31456, 31867, 22411, 65306>>,
     size        |-> <<20840, 25991, 23383, 25968, 65306>>,
     clicks      |-> <<38750, 86, 28857, 20987, 65306>>,
     score       |-> <<25991, 31456, 31215, 20998, 65306>>,
     sign        |-> <<31614, 32422, 29366, 24577, 65306>>,
     signed      |-> <<24050, 31614, 32422>>,
     unsigned    |-> <<26410, 31614, 32422>>,
     lrm         |-> <<38, 108, 114, 109, 59>>,
     nbsp        |-> <<38, 110, 98, 115, 112, 59>>,
     no_rank     |-> <<26242, 26080, 25490, 21517>>,
     tags        |-> <<26631, 31614, 65306>>,
     protagonist |-> <<20027, 35282, 65306>>,
     costar      |-> <<37197, 35282, 65306>>,
     others      |-> <<20854, 23427, 65306>>,
     style       |-> <<39118, 26684, 65306>>,
     view        |-> <<35270, 35282, 65306>>,
     series      |-> <<25152, 23646, 65306>>,
     br          |-> <<60, 98, 114, 62>>]

\* the object the extended fields are read from (step 3)
RECURSIVE FirstTruthyKey(_, _)
FirstTruthyKey(data, ks) ==
    IF ks = <<>> THEN data
    ELSE IF HasKey(data, ks[1]) /\ Truthy(data.v[ks[1]]) THEN data.v[ks[1]]
    ELSE FirstTruthyKey(data, Tail(ks))

OtherOf(data) ==
    IF IsDict(data) THEN FirstTruthyKey(data, <<"data", "a", "novelLeave", "novel", "result">>)
    ELSE IF IsList(data) /\ data.v # <<>> THEN data.v[1]
    ELSE data

\* signed only for the text '1'
SignedDisplayOne(is_sign) ==
    IF Strip(PyStr(is_sign)) = <<49>> THEN Label.signed ELSE Label.unsigned

\* signed_display
SignedDisplay(is_sign) ==
    LET raw == Strip(PyStr(is_sign))
        lr  == LowerText(raw)
        flag ==
          IF is_sign.t = "b" THEN is_sign.v
          ELSE \/ lr \in {<<49>>, <<116, 114, 117, 101>>, <<121, 101, 115>>}
               \/ (raw # <<>> /\ DigitRun(raw) = raw /\ TextToInt(raw) > 0)
    IN  IF raw # <<>> /\ flag THEN Label.signed ELSE Label.unsigned

\* re.search(r"(\d+)", text): the first run of digits
RECURSIVE FirstDigits(_)
FirstDigits(s) ==
    IF s = <<>> THEN <<>>
    ELSE IF IsDigit(s[1]) THEN DigitRun(s) ELSE FirstDigits(Tail(s))

\* x.replace('\n', '<br>')
NlToBr(s) == Replace(s, <<10>>, Label.br)

\* re.sub(r'^(label)[:(fullwidth colon)]\s*', '', text) for the four role labels
clean_role(val) ==
    IF ~Truthy(val) THEN <<>>
    ELSE LET txt == html_to_text(PyStr(val))
             labelled ==
               \E l \in {<<20027, 35282>>, <<37197, 35282>>, <<20854, 23427>>, <<20854, 20182>>} :
                  StartsWith(txt, l) /\ Len(txt) >= 3 /\ txt[3] \in {58, 65306}
         IN  IF labelled THEN LStrip(SubSeqFrom(txt, 4)) ELSE txt

\* the tag list after the genre was put in front (lines 896-912)
RECURSIVE OtherTags(_, _)
OtherTags(tags, novel_class) ==
    IF tags = <<>> THEN <<>>
    ELSE (IF Strip(PyStr(tags[1])) # <<>>
             /\ Strip(PyStr(tags[1])) # Strip(PyStr(novel_class))
          THEN <<tags[1]>> ELSE <<>>) \o OtherTags(Tail(tags), novel_class)

\* the genre added behind the tags
MergeClassAppend(tags, novel_class) == Uniq(Append(tags, novel_class), <<>>)

MergeClass(tags, novel_class) ==
    Uniq(<<novel_class>> \o OtherTags(tags, novel_class), <<>>)

\* the tag list after the auxiliary tags were added (lines 1004-1020)
RECURSIVE NewTags(_, _)
NewTags(parsed_tags, tags) ==
    IF parsed_tags = <<>> THEN <<>>
    ELSE (IF ~InSeq(parsed_tags[1], tags) THEN <<parsed_tags[1]>> ELSE <<>>)
         \o NewTags(Tail(parsed_tags), tags)

MergeTags(tags, parsed_tags) ==
    Uniq(tags \o NewTags(parsed_tags, tags), <<>>)

\* parsed_tags (lines 994-1002)
ParsedTags(tags) ==
    IF IsStr(tags) THEN TextsToJ(SplitDelims(tags.v))
    ELSE IF IsList(tags)
         THEN TextsToJ(NonEmpty([i \in 1..Len(tags.v) |-> Strip(PyStr(tags.v[i]))]))
    ELSE <<>>

\* leave_display (lines 874-894)
RECURSIVE LeaveObj(_)
LeaveObj(sources) ==
    IF sources = <<>> THEN JNull
    ELSE LET f == IF HasKey(sources[1], "novelLeave") /\ Truthy(sources[1].v["novelLeave"])
                    THEN sources[1].v["novelLeave"]
                  ELSE IF HasKey(sources[1], "leave") /\ Truthy(sources[1].v["leave"])
                    THEN sources[1].v["leave"]
                  ELSE IF HasKey(sources[1], "novelleave") /\ Truthy(sources[1].v["novelleave"])
                    THEN sources[1].v["novelleave"]
                  ELSE JNull
         IN  IF Truthy(f) THEN f ELSE LeaveObj(Tail(sources))

LeaveDisplay(sources) ==
    LET leave_obj == LeaveObj(sources)
        ld_back == Or(Get(leave_obj, "leaveDateBack"), Or(Get(leave_obj, "leave_date_back"), JEmpty))
        ld      == Or(Get(leave_obj, "leaveDate"),
                      Or(Get(leave_obj, "leaveDateStr"), Or(Get(leave_obj, "leave_date"), JEmpty)))
        lcont   == Or(Get(leave_obj, "leaveContent"), Or(Get(leave_obj, "leave_content"), JEmpty))
        kept    == (IF Truthy(ld_back) THEN <<ld_back>> ELSE <<>>)
                   \o (IF Truthy(lcont) THEN <<lcont>> ELSE <<>>)
                   \o (IF Truthy(ld) THEN <<ld>> ELSE <<>>)
        leave_lines == [i \in 1..Len(kept) |-> PyStr(kept[i])]
    IN  IF IsDict(leave_obj) /\ leave_lines # <<>>
        THEN Join(leave_lines, <<10>>) \o <<10>> \o Label.lrm \o <<10>>
        ELSE <<>>

\* lines 1086-1106: tags and comments are stored and the block of lines
\* is appended to description_html and description
Described(book, tags, comments, lines) ==
    LET exist_html == IF book.description_html # <<>> THEN book.description_html
                      ELSE book.description
    IN  [book EXCEPT
           !.tags = tags,
           !.comments = comments,
           !.description_html =
               IF exist_html # <<>>
               THEN exist_html \o Label.br \o Label.br
                    \o Join([i \in 1..Len(lines) |-> NlToBr(lines[i])], Label.br)
               ELSE Join([i \in 1..Len(lines) |-> NlToBr(lines[i])], Label.br),
           !.description =
               IF book.description # <<>>
               THEN book.description \o <<10, 10>> \o Join(lines, <<10>>)
               ELSE Join(lines, <<10>>)]

\* `if line: lines.append(line)`
OptLine(line) == IF line # <<>> THEN <<line>> ELSE <<>>

\* `if val: lines.append(label + str(val))`
OptField(label, val) == IF Truthy(val) THEN <<label \o PyStr(val)>> ELSE <<>>

\* size values that are lists or dicts are flattened to text (lines 915-920)
NovelSize(size0) ==
    IF size0.t \in {"l", "o"} THEN JStr(html_to_text(PyStr(size0))) ELSE size0

\* the favourites / ranking / nutrition line (lines 961-977 and 1068)
StatsLine(befav0, ranking_raw, nutrition) ==
    LET rank0 == IF Truthy(ranking_raw) THEN FirstDigits(PyStr(ranking_raw)) ELSE <<>>
    IN  <<11088>> \o Label.nbsp \o (IF Truthy(befav0) THEN PyStr(befav0) ELSE <<48>>)
        \o <<20008, 128077>> \o Label.nbsp \o <<78, 111, 46>>
        \o (IF rank0 # <<>> THEN rank0 ELSE Label.no_rank)
        \o <<20008, 127868>> \o Label.nbsp
        \o (IF Truthy(nutrition) THEN PyStr(nutrition) ELSE <<48>>)

\* the intro with its heading colon normalised (lines 980-992 and 1071-1073)
IntroLines(intro) ==
    LET intro_txt == Replace(Replace(html_to_text(PyStr(intro)),
                                     <<31435, 24847, 58>>, <<31435, 24847, 65306>>),
                             <<31435, 24847, 32, 58>>, <<31435, 24847, 65306>>)
    IN  IF Truthy(intro) /\ intro_txt # <<>> THEN <<intro_txt, Label.lrm>> ELSE <<>>

\* comments after the intro was merged (lines 981-991)
MergeIntro(comments, intro) ==
    IF ~Truthy(intro) THEN comments
    ELSE IF Truthy(comments)
         THEN JStr(Strip(PyStr(comments)) \o <<10, 10>> \o html_to_text(PyStr(intro)))
         ELSE JStr(html_to_text(PyStr(intro)))

TagsLine(parsed_tags) ==
    IF parsed_tags # <<>>
    THEN Label.tags \o Join([i \in 1..Len(parsed_tags) |-> parsed_tags[i].v], Label.nbsp)
    ELSE <<>>

RolesComb(prot_clean, costar_clean, other_clean) ==
    (IF prot_clean # <<>> THEN Label.protagonist \o prot_clean ELSE <<>>)
    \o (IF costar_clean # <<>> THEN Label.costar \o costar_clean ELSE <<>>)
    \o (IF other_clean # <<>> THEN Label.others \o other_clean ELSE <<>>)

StyleLine(style, mainview) ==
    IF Truthy(style) \/ Truthy(mainview)
    THEN Label.style \o (IF Truthy(style) THEN PyStr(style) ELSE <<>>)
         \o Label.nbsp \o Label.nbsp \o Label.nbsp \o Label.nbsp
         \o Label.view \o (IF Truthy(mainview) THEN PyStr(mainview) ELSE <<>>)
    ELSE <<>>

FirstLine(leave_display, novel_class) ==
    leave_display \o (IF Truthy(novel_class) THEN Label.class \o PyStr(novel_class) ELSE <<>>)

\* the sources the lookups read: the extended info, the basic payload and the
\* book dict itself, so that later lookups see its updates
SourcesOf(b, other, base_data) ==
    (IF IsDict(other) THEN <<other>> ELSE <<>>)
    \o (IF IsDict(base_data) THEN <<base_data>> ELSE <<>>)
    \o <<BookObj(b)>>

\* the tags after the genre and the auxiliary tags were merged
MergedTags(tags1, parsed_tags) ==
    IF parsed_tags # <<>> THEN MergeTags(tags1, parsed_tags) ELSE tags1

ClassTags(tags, novel_class) ==
    IF Truthy(novel_class) THEN MergeClass(tags, novel_class) ELSE tags

\* the lookups made after genre and intro were merged into the book
MergeRest(book, sources0, sources1, sources, novel_class) ==
    Described(book, MergedTags(book.tags,
                               ParsedTags(pick_any(sources, <<"novelTags", "novel_tags", "tags">>))),
        book.comments,
           OptLine(FirstLine(LeaveDisplay(sources0), novel_class))
        \o OptField(Label.size, NovelSize(pick_any(sources1,
               <<"novelSize", "novel_size", "novelSizeShow", "novelsizeformat",
                 "word_count", "words">>)))
        \o OptField(Label.clicks, pick_any(sources1,
               <<"novip_clicks", "novipClicks", "novipClick", "novipclicks">>))
        \o OptField(Label.score, pick_any(sources1, <<"novelScore", "score", "novelscore">>))
        \o <<Label.sign \o SignedDisplay(pick_any(sources1, <<"isSign", "is_sign", "issign">>))>>
        \o <<Label.lrm,
             StatsLine(pick_any(sources1, <<"novelbefavoritedcount", "befavoritedcount",
                                           "favoriteCount">>),
                       pick_any(sources1, <<"ranking", "rank", "ranking_str">>),
                       pick_any(sources1, <<"nutrition_novel", "nutrition", "nutritionNovel">>)),
             Label.lrm>>
        \o IntroLines(pick_any(sources1, <<"novelIntro", "novelintro", "novelIntroShort",
                                          "novelIntroShortHtml", "description", "desc">>))
        \o OptLine(TagsLine(ParsedTags(pick_any(sources, <<"novelTags", "novel_tags", "tags">>))))
        \o OptLine(RolesComb(
               clean_role(pick_any(sources, <<"protagonist", "protagonists", "u4E3Bu89D2">>)),
               clean_role(pick_any(sources, <<"costar", "coStar", "u914Du89D2">>)),
               clean_role(pick_any(sources, <<"other", "others">>))))
        \o OptLine(StyleLine(pick_any(sources, <<"novelStyle", "style">>),
                             pick_any(sources, <<"mainview", "view">>)))
        \o OptField(Label.series, pick_any(sources, <<"series">>)))

\* the book with the genre merged into its tags, then the intro into its comments
WithClass(book, novel_class) == [book EXCEPT !.tags = ClassTags(book.tags, novel_class)]

WithIntro(book, sources1) ==
    [book EXCEPT !.comments = MergeIntro(book.comments,
        pick_any(sources1, <<"novelIntro", "novelintro", "novelIntroShort",
                            "novelIntroShortHtml", "description", "desc">>))]

MergeSteps(book1, other, base_data, sources0, novel_class) ==
    MergeRest(WithIntro(book1, SourcesOf(book1, other, base_data)),
              sources0,
              SourcesOf(book1, other, base_data),
              SourcesOf(WithIntro(book1, SourcesOf(book1, other, base_data)), other, base_data),
              novel_class)

\* the work done once the extended-info object `other` is known to be truthy
MergeOther(book, other, base_data) ==
    MergeSteps(WithClass(book, pick_any(SourcesOf(book, other, base_data),
                                        <<"novelClass", "novel_class", "category">>)),
               other, base_data,
               SourcesOf(book, other, base_data),
               pick_any(SourcesOf(book, other, base_data),
                        <<"novelClass", "novel_class", "category">>))


fetch_and_merge_other_info(novelid, book, res, base_data) ==
    IF novelid = <<>> THEN book
    ELSE IF ~StatusOk(res) THEN book
    ELSE LET other == OtherOf(LoadsOrNone(res.body))
         IN  IF ~Truthy(other) THEN book
             ELSE MergeOther(book, other, base_data)

\* ---------------------------------------------------------------------
\* Book records (the dict load_book returns); NoBook is None.  `via` is a
\* ghost field: the parser that built the record.
\* ---------------------------------------------------------------------
NoBook == [none |-> TRUE]

\* JINJIANG_BASE_URL.rstrip('/')
TxtOrigin  == <<104, 116, 116, 112, 115, 58, 47, 47, 119, 119, 119, 46, 106, 106, 119, 120,
                99, 46, 110, 101, 116>>

RECURSIVE LStripSlash(_)
LStripSlash(s) == IF s # <<>> /\ s[1] = 47 THEN LStripSlash(Tail(s)) ELSE s

\* startswith 'http://', 'https://' or 'data:'
IsAbsolute(c) ==
    \/ StartsWith(c, <<104, 116, 116, 112, 58, 47, 47>>)
    \/ StartsWith(c, <<104, 116, 116, 112, 115, 58, 47, 47>>)
    \/ StartsWith(c, <<100, 97, 116, 97, 58>>)

\* cover normalisation of parse_app_book_data (lines 1370-1381) on the stripped text
NormalizeCover(cover) ==
    LET c == IF cover = <<>> THEN cover
             ELSE IF StartsWith(cover, <<47, 47>>) THEN <<104, 116, 116, 112, 115, 58>> \o cover
             ELSE IF StartsWith(cover, <<47>>) THEN TxtOrigin \o cover
             ELSE IF ~IsAbsolute(cover) THEN TxtOrigin \o <<47>> \o LStripSlash(cover)
             ELSE cover
    IN  IF c # <<>> /\ IsAbsolute(c) THEN c ELSE <<>>

\* a cover handed on as it came
CoverUnchanged(cover_src) == cover_src

\* cover normalisation of parse_book (lines 1579-1591) on the stripped src
HtmlCover(cover_src) ==
    IF cover_src = <<>> THEN <<>>
    ELSE
      LET c == IF StartsWith(cover_src, <<47, 47>>)
               THEN <<104, 116, 116, 112, 115, 58>> \o cover_src
               ELSE IF StartsWith(cover_src, <<47>>) THEN TxtOrigin \o cover_src
               ELSE IF /\ ~StartsWith(cover_src, <<104, 116, 116, 112, 58, 47, 47>>)
                       /\ ~StartsWith(cover_src, <<104, 116, 116, 112, 115, 58, 47, 47>>)
                    THEN IF ~StartsWith(cover_src, <<100, 97, 116, 97, 58>>)
                         THEN TxtOrigin \o <<47>> \o LStripSlash(cover_src)
                         ELSE cover_src
               ELSE cover_src
      IN  IF c # <<>> /\ IsAbsolute(c) THEN c ELSE <<>>

\* fetch_metadata_app.normalize_cover_url (lines 278-294)
normalize_cover_url(cover) ==
    IF cover = <<>> THEN <<>>
    ELSE
      LET s == Strip(cover)
          c == IF s = <<>> THEN s
               ELSE IF StartsWith(s, <<47, 47>>) THEN <<104, 116, 116, 112, 115, 58>> \o s
               ELSE IF StartsWith(s, <<47>>) THEN TxtOrigin \o s
               ELSE IF ~IsAbsolute(s) THEN TxtOrigin \o <<47>> \o LStripSlash(s)
               ELSE s
      IN  IF c # <<>> /\ IsAbsolute(c) THEN c ELSE <<>>

\* JINJIANG_BOOK_DETAIL_WEB_URL % novelid: the URL is kept as its novelid query value
DetailUrl(novelid) == [novelid |-> novelid]

\* parse_app_book_data up to the enrichment call (lines 1269-1443); the
\* fields publishedDate, status, chapters, vip_start and source are left out
BaseBook(app_data, novelid) ==
    LET title0 == _pick_from(app_data, <<"bookname", "bookName", "book_name", "novelname",
                                         "novelName", "name", "title", "novelname_format",
                                         "novelname_format_html">>)
        title  == Strip(html_to_text(PyStr(title0)))
        author_field == _pick_from(app_data, <<"authorname", "author", "authorName", "authors",
                                               "writer", "writerName", "author_name",
                                               "authorNames">>)
        author_str ==
            IF IsList(author_field) /\ author_field.v # <<>>
            THEN Join([i \in 1..Len(author_field.v) |-> html_to_text(PyStr(author_field.v[i]))],
                      <<44>>)
            ELSE html_to_text(PyStr(author_field))
        authors == SplitDelims(author_str)
        cover0 == Or(_pick_from(app_data, <<"novelCover">>),
                  Or(_pick_from(app_data, <<"originalCover">>),
                  Or(_pick_from(app_data, <<"coverimg", "cover", "cover_img", "bookimg",
                                            "coverUrl", "cover_url">>),
                  Or(_pick_from(app_data, <<"localImg">>), JEmpty))))
        intro_html == _pick_from(app_data, <<"intro", "novelintroshort", "novelintro",
                                             "description", "desc">>)
        category == _pick_from(app_data, <<"category">>)
        tags_raw == _pick_from(app_data, <<"tags">>)
        tags0 == IF IsStr(tags_raw) THEN TextsToJ(SplitComma(tags_raw.v))
                 ELSE IF IsList(tags_raw)
                      THEN TextsToJ(NonEmpty([i \in 1..Len(tags_raw.v) |->
                                                 Strip(PyStr(tags_raw.v[i]))]))
                 ELSE <<>>
    IN  [id |-> novelid,
         title |-> title,
         authors |-> authors,
         url |-> DetailUrl(novelid),
         cover |-> NormalizeCover(Strip(PyStr(cover0))),
         description_html |-> Strip(PyStr(intro_html)),
         description |-> html_to_text(PyStr(intro_html)),
         tags |-> IF Truthy(category) THEN <<category>> \o tags0 ELSE tags0,
         word_count |-> Or(_pick_from(app_data, <<"wordcount", "wordCount">>), JNum(0)),
         comments |-> JNull,
         via |-> "app"]

\* parse_app_book_data: the base record, then the best-effort enrichment
\* with the answer `res` of the getnovelOtherInfo request
parse_app_book_data(app_data, novelid, res) ==
    fetch_and_merge_other_info(novelid, BaseBook(app_data, novelid), res, app_data)

\* ---------------------------------------------------------------------
\* load_book_via_app_api
\* ---------------------------------------------------------------------
detail_endpoints == <<"app-cdn.jjwxc.net/androidapi/novelbasicinfo",
                      "app.jjwxc.org/androidapi/getBookDetail",
                      "app.jjwxc.org/androidapi/novelbasicinfo">>
param_variants == <<"novelid", "novelId", "bookId", "bookid">>

\* the pairs with the loops nested the other way round
DetailCombosParamMajor ==
    [i \in 1..(Len(detail_endpoints) * Len(param_variants)) |->
        <<detail_endpoints[((i - 1) % Len(detail_endpoints)) + 1],
          param_variants[((i - 1) \div Len(detail_endpoints)) + 1]>>]

\* the (endpoint, parameter name) pairs in the order the nested loops visit them
DetailCombos ==
    [i \in 1..(Len(detail_endpoints) * Len(param_variants)) |->
        <<detail_endpoints[((i - 1) \div Len(param_variants)) + 1],
          param_variants[((i - 1) % Len(param_variants)) + 1]>>]

\* data.get('code') == 0
CodeIsZero(data) ==
    LET c == Get(data, "code")
    IN  (c.t = "n" /\ c.v = 0) \/ (c.t = "b" /\ ~c.v)

\* items list: the first item whose id matches, else the first item
RECURSIVE FindItem(_, _)
FindItem(items, novelid) ==
    IF items = <<>> THEN JNull
    ELSE LET it == items[1]
             nid == Or(Get(it, "novelid"), Or(Get(it, "bookId"), Get(it, "id")))
         IN  IF IsDict(it) /\ PyStr(nid) = novelid THEN it
             ELSE FindItem(Tail(items), novelid)

\* the envelope recogniser (lines 1194-1226): app_data, JNull when none
AppData(data, novelid) ==
    IF ~Truthy(data) THEN JNull
    ELSE IF IsDict(data) THEN
        LET d == Get(data, "data")
            items == Get(data, "items")
        IN  IF CodeIsZero(data) /\ Truthy(d)
            THEN IF IsDict(d) /\ (Truthy(Get(d, "book")) \/ Truthy(Get(d, "novel")))
                 THEN Or(Get(d, "book"), Or(Get(d, "novel"), d))
                 ELSE d
            ELSE IF Truthy(d) /\ IsDict(d) THEN d
            ELSE IF Truthy(items)
                 THEN IF IsList(items)
                      THEN Or(FindItem(items.v, novelid), items.v[1])
                      ELSE JNull
            ELSE data
    ELSE IF IsList(data) THEN data.v[1]
    ELSE JNull

\* the gate without its authors half
GateOkTitleOnly(parsed) == parsed.title # <<>>

\* the acceptance gate (lines 1232-1237)
GateOk(parsed) == parsed.title # <<>> /\ parsed.authors # <<>>

\* one pass of the loop body for combination i: whether an enrichment
\* request was made, and the record returned (NoBook: go on to the next one)
Gated(novelid, parsed) ==
    [enriched |-> novelid # <<>>, book |-> IF GateOk(parsed) THEN parsed ELSE NoBook]

ParseAttempt(novelid, app_data, otherRes) ==
    IF ~Truthy(app_data) THEN [enriched |-> FALSE, book |-> NoBook]
    ELSE Gated(novelid, parse_app_book_data(app_data, novelid, otherRes))

DetailAttempt(novelid, res, otherRes) ==
    IF ~StatusOk(res) THEN [enriched |-> FALSE, book |-> NoBook]
    ELSE ParseAttempt(novelid, AppData(LoadsOrNone(res.body), novelid), otherRes)

\* the nested loops from combination i on; tried is the list of requested
\* combinations, others the number of getnovelOtherInfo requests
RECURSIVE DetailLoop(_, _, _, _, _)

\* the end of the loop body: return on a record that passed the gate
DetailStep(novelid, script, i, tried, others, a) ==
    IF a.book # NoBook
    THEN [book |-> a.book, tried |-> tried, others |-> others]
    ELSE DetailLoop(novelid, script, i + 1, tried, others)

DetailCount(novelid, script, i, tried, others, a) ==
    DetailStep(novelid, script, i, tried, IF a.enriched THEN others + 1 ELSE others, a)

DetailLoop(novelid, script, i, tried, others) ==
    IF i > Len(DetailCombos) THEN [book |-> NoBook, tried |-> tried, others |-> others]
    ELSE DetailCount(novelid, script, i, Append(tried, DetailCombos[i]), others,
                     DetailAttempt(novelid, script.detail[i], script.other[i]))

load_book_via_app_api(novelid, script) == DetailLoop(novelid, script, 1, <<>>, 0)

\* ---------------------------------------------------------------------
\* JinjiangBookHtmlParser.parse_book.  A page is the result of the XPath
\* queries: per query the matched elements, each element the list of its
\* descendant text nodes; img_src is the src of the first cover image.
\* ---------------------------------------------------------------------
\* get_text(elements): ' '.join(text nodes).strip() of the first element with text
RECURSIVE get_text(_)
get_text(elements) ==
    IF elements = <<>> THEN <<>>
    ELSE LET text == Strip(JoinSpace(elements[1]))
         IN  IF text # <<>> THEN text ELSE get_text(Tail(elements))

\* get_text(elements, join_lines=True)
get_text_lines(elements) ==
    Join(NonEmpty([i \in 1..Len(elements) |-> Strip(JoinSpace(elements[i]))]), <<10>>)

\* the record parse_book builds from a page (lines 1559-1613)
PageBook(url, page) ==
    [id |-> DigitRun(url.novelid),
     title |-> Strip(get_text(page.title_elements)),
     authors |-> IF page.author_elements # <<>>
                 THEN <<Strip(get_text(page.author_elements))>> ELSE <<>>,
     url |-> url,
     cover |-> HtmlCover(Strip(page.img_src)),
     description_html |-> <<>>,
     description |-> get_text_lines(page.summary_elements),
     tags |-> TextsToJ(NonEmpty([i \in 1..Len(page.tag_elements) |->
                                   Strip(get_text(<<page.tag_elements[i]>>))])),
     word_count |-> JNum(0),
     comments |-> JNull,
     via |-> "html"]

\* parse_book without the check of the title
parse_book_untitled(url, page) ==
    IF ~page.doc THEN NoBook
    ELSE IF DigitRun(url.novelid) = <<>> THEN NoBook
    ELSE PageBook(url, page)

\* parse_book without the check of the id
parse_book_any_url(url, page) ==
    IF ~page.doc THEN NoBook
    ELSE IF Strip(get_text(page.title_elements)) = <<>> THEN NoBook
    ELSE PageBook(url, page)

parse_book(url, page) ==
    IF ~page.doc THEN NoBook
    ELSE IF DigitRun(url.novelid) = <<>> THEN NoBook
    ELSE IF Strip(get_text(page.title_elements)) = <<>> THEN NoBook
    ELSE PageBook(url, page)

\* ---------------------------------------------------------------------
\* load_book
\* ---------------------------------------------------------------------
\* extract_novelid: the novelid query value of the URL, <<>> for none
extract_novelid(url) == url.novelid

\* step 4: the web page fetch and parse; every exception is caught
HtmlStage(url, res) ==
    IF StatusOk(res) THEN parse_book(url, res.body) ELSE NoBook

\* load_book requesting the web page whatever the JSON path gave
AfterAppAlwaysHtml(url, script, app) ==
    [book |-> IF app.book # NoBook THEN app.book ELSE HtmlStage(url, script.html),
     tried |-> app.tried, others |-> app.others, html |-> TRUE]

\* the outcome of one load_book call against the server script: the book
\* (or NoBook), the JSON detail combinations requested, the number of
\* enrichment requests, and whether the web page was requested
\* steps 3 and 4: the record of the JSON path if there is one, else the web page
AfterApp(url, script, app) ==
    IF app.book # NoBook
    THEN [book |-> app.book, tried |-> app.tried, others |-> app.others, html |-> FALSE]
    ELSE [book |-> HtmlStage(url, script.html), tried |-> app.tried,
          others |-> app.others, html |-> TRUE]

load_book(url, script, prefer_app_api, sid) ==
    IF extract_novelid(url) = <<>>
    THEN [book |-> NoBook, tried |-> <<>>, others |-> 0, html |-> FALSE]
    ELSE AfterApp(url, script,
                  IF prefer_app_api /\ sid # <<>>
                  THEN load_book_via_app_api(extract_novelid(url), script)
                  ELSE [book |-> NoBook, tried |-> <<>>, others |-> 0])

\* ---------------------------------------------------------------------
\* search_via_app_api
\* ---------------------------------------------------------------------
\* the first truthy of the four list keys, [] when none
ListKeys(d) ==
    Or(Get(d, "books"), Or(Get(d, "results"), Or(Get(d, "items"),
       Or(Get(d, "list"), JList(<<>>)))))

\* _extract_books_from_json: the value taken as the book list; raised when
\* the data member is not a dict (d.get raises AttributeError)
_extract_books_from_json(data) ==
    IF ~Truthy(data) THEN [raised |-> FALSE, list |-> JList(<<>>)]
    ELSE IF IsDict(data) THEN
        IF CodeIsZero(data) /\ Truthy(Get(data, "data"))
        THEN IF IsDict(Get(data, "data"))
             THEN [raised |-> FALSE, list |-> ListKeys(Get(data, "data"))]
             ELSE [raised |-> TRUE, list |-> JList(<<>>)]
        ELSE [raised |-> FALSE, list |-> ListKeys(data)]
    ELSE IF IsList(data) THEN [raised |-> FALSE, list |-> data]
    ELSE [raised |-> FALSE, list |-> JList(<<>>)]

\* the loop over the book list (lines 513-517): a candidate URL for every
\* item that has an id while fewer than max_workers are collected; an item
\* that is no dict raises, and the URLs appended so far are kept
RECURSIVE AppendCandidates(_, _, _)
AppendCandidates(items, book_urls, max_workers) ==
    IF items = <<>> THEN [raised |-> FALSE, urls |-> book_urls]
    ELSE IF ~IsDict(items[1]) THEN [raised |-> TRUE, urls |-> book_urls]
    ELSE LET novelid == Or(Get(items[1], "novelid"),
                           Or(Get(items[1], "bookId"), Get(items[1], "id")))
         IN  AppendCandidates(Tail(items),
                 IF Truthy(novelid) /\ Len(book_urls) < max_workers
                 THEN Append(book_urls, DetailUrl(PyStr(novelid)))
                 ELSE book_urls,
                 max_workers)

\* one of the two strategies (lines 497-523 and 526-558) with the answer
\* res: returned tells whether search_via_app_api returns from inside it
SearchAttempt(res, book_urls, max_workers) ==
    IF ~StatusOk(res) THEN [returned |-> FALSE, urls |-> book_urls]
    ELSE LET e == _extract_books_from_json(LoadsOrNone(res.body))
         IN  IF e.raised \/ ~Truthy(e.list)
             THEN [returned |-> FALSE, urls |-> book_urls]
             ELSE IF ~IsList(e.list)
             THEN \* iterating a dict, a string or a number raises at once
                  [returned |-> FALSE, urls |-> book_urls]
             ELSE LET a == AppendCandidates(e.list.v, book_urls, max_workers)
                  IN  [returned |-> ~a.raised, urls |-> a.urls]

\* the search without the test of the session id
search_via_app_api_any_sid(sid, max_workers, res1, res2) ==
    LET s1 == SearchAttempt(res1, <<>>, max_workers)
        s2 == SearchAttempt(res2, s1.urls, max_workers)
    IN  IF s1.returned THEN [urls |-> s1.urls, requests |-> 1]
        ELSE [urls |-> s2.urls, requests |-> 2]

\* the candidate URLs and the number of search requests made; res1 answers
\* the searchV3 request and res2 the androidapi request
search_via_app_api(sid, max_workers, res1, res2) ==
    IF sid = <<>> THEN [urls |-> <<>>, requests |-> 0]
    ELSE LET s1 == SearchAttempt(res1, <<>>, max_workers)
             s2 == SearchAttempt(res2, s1.urls, max_workers)
         IN  IF s1.returned THEN [urls |-> s1.urls, requests |-> 1]
             ELSE [urls |-> s2.urls, requests |-> 2]

\* search_books, lines 626-629: the query with the authors appended
EnhancedQuery(query, authors, search_with_author) ==
    IF search_with_author /\ authors # <<>>
    THEN query \o <<32>> \o JoinSpace(authors)
    ELSE query

\* search_books, lines 640-646: one completed future; book is the record,
\* NoBook, or Raised when future.result() raises
Raised == [raised |-> TRUE]

\* a failed fetch drops what the batch has collected
CollectAllOrNothing(books, book) ==
    IF book = Raised \/ book = NoBook THEN <<>> ELSE Append(books, book)

Collect(books, book) ==
    IF book = Raised THEN books
    ELSE IF book # NoBook THEN Append(books, book)
    ELSE books

\* ThreadPoolExecutor(max_workers=max(1, min(self.max_workers, 20)))
PoolCap == 20

\* the pool size without the upper clamp
max_workers_unclamped(max_workers) == Max(1, max_workers)

max_workers_safe(max_workers) == Max(1, Min(max_workers, PoolCap))

\* ---------------------------------------------------------------------
\* fetch_metadata_app.get_novel_basic (the stand-alone fetch script)
\* ---------------------------------------------------------------------
_is_valid_book_data(data, novelid) ==
    LET d == Get(data, "data")
        app_data ==
            IF IsDict(data) THEN
                IF CodeIsZero(data) /\ Truthy(d)
                THEN IF IsDict(d) /\ (Truthy(Get(d, "book")) \/ Truthy(Get(d, "novel")))
                     THEN Or(Get(d, "book"), Or(Get(d, "novel"), d))
                     ELSE d
                ELSE IF Truthy(d) /\ IsDict(d) THEN d
                ELSE data
            ELSE IF IsList(data) /\ data.v # <<>> THEN data.v[1]
            ELSE JNull
        title  == Or(Get(app_data, "novelName"), Or(Get(app_data, "bookname"),
                  Or(Get(app_data, "bookName"), Get(app_data, "title"))))
        author == Or(Get(app_data, "authorName"), Or(Get(app_data, "author"),
                     Get(app_data, "authorname")))
        nid    == PyStr(Or(Get(app_data, "novelId"), Or(Get(app_data, "novelid"),
                     Or(Get(app_data, "id"), JEmpty))))
    IN  /\ Truthy(data)
        /\ Truthy(app_data)
        /\ IsDict(app_data)
        /\ (Truthy(title) \/ Truthy(author) \/ nid = novelid)

\* the nested loops from combination i on: the payload returned (JNull for
\* None) and the combinations requested
RECURSIVE BasicLoop(_, _, _, _)
BasicLoop(novelid, script, i, tried) ==
    IF i > Len(DetailCombos) THEN [data |-> JNull, tried |-> tried]
    ELSE LET res == script.detail[i]
             tried1 == Append(tried, DetailCombos[i])
         IN  IF StatusOk(res) /\ res.body.t # "x"
                /\ _is_valid_book_data(res.body, novelid)
             THEN [data |-> res.body, tried |-> tried1]
             ELSE BasicLoop(novelid, script, i + 1, tried1)

get_novel_basic(novelid, script) == BasicLoop(novelid, script, 1, <<>>)

\* ---------------------------------------------------------------------
\* NewJinjiangBooks.to_metadata: the Metadata object put on the queue
\* ---------------------------------------------------------------------
to_metadata(book) ==
    [title |-> book.title,
     authors |-> book.authors,
     identifiers |-> book.id,
     url |-> book.url,
     cover |-> book.cover,
     comments |-> IF book.description # <<>> THEN book.description
                  ELSE book.description_html,
     tags |-> book.tags,
     word_count |-> book.word_count,
     description_html |-> book.description_html,
     via |-> book.via]

\* ---------------------------------------------------------------------
\* The environment: what identify is called with and what the servers answer
\* ---------------------------------------------------------------------
TxtId12   == <<49, 50>>
TxtIdAB   == <<97, 98>>
TxtT      == <<84>>
TxtA      == <<65>>
TxtTitleStop  == <<24635, 26377, 23436, 32467>>
TxtTitleHash  == <<35, 37233, 23376, 36125, 35>>
TxtTitleOne   == <<97>>
\* a title of eight tokens, the last a stop word
ExManyTokens ==
    <<97, 98, 32, 99, 100, 32, 101, 102, 32, 103, 104, 32, 105, 106, 32, 107, 108,
      32, 109, 110, 111, 32, 23436, 32467>>
TxtAuthorZ    == <<90>>

TxtSid        == <<115>>

Identifiers == {TxtId12, TxtIdAB}
\* login cookies: none, an empty one, cookies without a session field, and
\* cookies that hold the session id in each of the fields the extraction
\* reads
TxtCookieEver   == <<74, 74, 69, 86, 69, 82, 61, 120>>
TxtCookieOther  == <<102, 111, 111, 61, 98, 97, 114>>
TxtCookieSid    == TxtKeySid \o <<61>> \o TxtSid
TxtCookieToken  == <<102, 111, 111, 61, 98, 97, 114, 59, 32>> \o TxtKeyToken \o <<61, 37, 55, 51>>
TxtCookieBbs    == <<98, 98, 115>> \o TxtKeyToken \o <<61>> \o TxtSid
TxtCookieJson   == <<74, 74, 83, 69, 83, 83, 61, 123, 34>> \o TxtKeySidkey \o <<34, 58, 34>> \o TxtSid \o <<34, 125>>
TxtCookieJsonNoSid == <<74, 74, 83, 69, 83, 83, 61, 123, 34, 117, 34, 58, 34>> \o TxtSid \o <<34, 125>>
TxtCookieSidkey == <<74, 74, 83, 69, 83, 83, 61>> \o TxtKeySidkey \o <<58, 39>> \o TxtSid \o <<39>>
NoSidCookies  == {NoCookie, <<>>, TxtCookieEver, TxtCookieOther, TxtCookieJsonNoSid}
SidCookies    == {TxtCookieSid, TxtCookieToken, TxtCookieBbs, TxtCookieJson, TxtCookieSidkey}
LoginCookies  == NoSidCookies \cup SidCookies
Sids        == {extract_sid_from_cookie(c) : c \in LoginCookies}

\* book lists of the search endpoints
BookItem(n) == JObj([novelid |-> JStr(IntToText(100 + n)), bookname |-> JStr(TxtT)])
BookItems(n) == [i \in 1..n |-> BookItem(i)]
SameItems(n) == [i \in 1..n |-> JObj([id |-> JNum(7)])]

\* the answers of a search endpoint: a failure, a list that breaks off after
\* one book, books without an id, and lists of 0 .. MaxBooks + 1 books; a
\* searcher with a limit above the pool's clamp is offered more books than
\* its limit
SearchAnswers(max_workers) ==
    IF max_workers > PoolCap
    THEN {RespExc("exception"), RespOf(200, JList(SameItems(max_workers + 1)))}
    ELSE {RespExc("exception"), RespOf(500, JNull),
          RespOf(201, JList(<<JObj([bookId |-> JNum(102)]), JStr(TxtT)>>)),
          RespOf(200, JObj([books |-> JList(<<JObj([title |-> JStr(TxtT)])>>)]))}
         \cup {RespOf(200, JObj([code |-> JNum(0),
                                 data |-> JObj([books |-> JList(BookItems(n))])])) :
                 n \in 0..(MaxBooks + 1)}

\* answers of the JSON detail endpoints
DetailAnswers ==
    <<RespOf(200, JObj([code |-> JNum(0),
                        data |-> JObj([novelName |-> JStr(TxtT), authorName |-> JStr(TxtA),
                                       tags |-> JStr(<<120, 44, 121>>)])])),
      RespOf(200, JObj([novelName |-> JStr(TxtT)])),
      RespOf(201, JObj([foo |-> JStr(<<98, 97, 114>>)]))>>

\* answers that make one JSON detail attempt fail
FailAnswers ==
    <<RespExc("exception"), RespExc("timeout"), RespOf(500, DetailAnswers[1].body),
      RespOf(200, JBad), RespOf(200, JNull), DetailAnswers[2]>>

\* answers of the getnovelOtherInfo endpoint
OtherAnswers ==
    <<RespExc("exception"), RespExc("timeout"),
      RespOf(404, JObj([novelClass |-> JStr(<<71>>)])),
      RespOf(200, JBad), RespOf(200, JObj(<<>>)),
      RespOf(200, JObj([foo |-> JStr(<<98, 97, 114>>)])),
      RespOf(200, JObj([data |-> JObj([novelClass |-> JStr(<<71>>),
                                       novelIntro |-> JStr(<<104, 105>>),
                                       novelTags |-> JStr(<<120, 32, 122>>)])]))>>

\* answers of the web detail page
Page(title, authors) ==
    [doc |-> TRUE, title_elements |-> title, author_elements |-> authors,
     img_src |-> <<47, 99>>, summary_elements |-> <<>>, tag_elements |-> <<>>]

HtmlAnswers ==
    <<RespExc("exception"),
      RespOf(404, Page(<<<<TxtT>>>>, <<<<TxtA>>>>)),
      RespOf(200, Page(<<<<TxtT>>>>, <<<<TxtA>>>>)),
      RespOf(200, Page(<<<<TxtT>>>>, <<>>)),
      RespOf(200, Page(<<>>, <<<<TxtA>>>>)),
      RespOf(201, Page(<<<<TxtT>>>>, <<<<>>>>))>>

\* a server script: the first `fails` detail attempts fail, the next ones are
\* answered with DetailAnswers[d], every enrichment request with
\* OtherAnswers[o] and the web page request with HtmlAnswers[h]
ScriptOf(s) ==
    [detail |-> [i \in 1..Len(DetailCombos) |->
                    IF i <= s.fails THEN FailAnswers[((i - 1) % Len(FailAnswers)) + 1]
                    ELSE DetailAnswers[s.d]],
     other  |-> [i \in 1..Len(DetailCombos) |-> OtherAnswers[s.o]],
     html   |-> HtmlAnswers[s.h]]

FailCounts == (0..MaxFails) \cup {Len(DetailCombos) - 1, Len(DetailCombos)}

Scripts ==
    {[fails |-> 0, d |-> 1, o |-> o, h |-> 1] : o \in 1..Len(OtherAnswers)}
    \cup {[fails |-> f, d |-> d, o |-> 1, h |-> 3] :
            f \in FailCounts, d \in 1..Len(DetailAnswers)}
    \cup {[fails |-> Len(DetailCombos), d |-> 1, o |-> 1, h |-> h] :
            h \in 1..Len(HtmlAnswers)}

\* the scripts the fan-out tasks meet: the book is served, or every request
\* for it fails
PoolScripts(url) ==
    IF url.novelid = <<55>>
    THEN {[fails |-> 0, d |-> 1, o |-> 1, h |-> 3]}
    ELSE {[fails |-> 0, d |-> 1, o |-> 1, h |-> 3],
          [fails |-> Len(DetailCombos), d |-> 1, o |-> 1, h |-> 1]}

\* the answers of the androidapi search: it is asked only when the searchV3
\* strategy did not return
SecondAnswers(sd, max_workers, res1) ==
    IF sd # <<>> /\ ~SearchAttempt(res1, <<>>, max_workers).returned
    THEN SearchAnswers(max_workers) ELSE {res1}

\* the calls of identify: with the provider's id; without it, by title and
\* authors under the plugin's settings; and with a limit above the pool's clamp
Call(cookie, prefer, with_author, limit, t, a, ids) ==
    [login_cookie |-> cookie, prefer_app_api |-> prefer, search_with_author |-> with_author,
     max_workers |-> limit, title |-> t, authors |-> a, identifiers |-> ids]

Calls ==
    {Call(ck, p, FALSE, MaxBooks, TxtTitleStop, <<TxtAuthorZ>>, ids) :
        ck \in {NoCookie, TxtCookieSid}, p \in BOOLEAN, ids \in Identifiers}
    \cup {Call(TxtCookieSid, TRUE, FALSE, MaxBooks, ta[1], ta[2], <<>>) :
            ta \in {<<TxtTitleStop, <<TxtAuthorZ>>>>, <<TxtTitleStop, <<>>>>,
                    <<TxtTitleHash, <<>>>>, <<TxtTitleOne, <<>>>>,
                    <<<<>>, <<TxtAuthorZ>>>>, <<<<>>, <<>>>>}}
    \cup {Call(ck, p, FALSE, MaxBooks, TxtTitleStop, <<TxtAuthorZ>>, <<>>) :
            ck \in {NoCookie, TxtCookieSid}, p \in BOOLEAN}
    \cup {Call(ck, TRUE, FALSE, MaxBooks, ta[1], ta[2], <<>>) :
            ck \in NoSidCookies,
            ta \in {<<TxtTitleStop, <<TxtAuthorZ>>>>, <<TxtTitleHash, <<>>>>,
                    <<<<>>, <<TxtAuthorZ>>>>}}
    \cup {Call(ck, TRUE, FALSE, MaxBooks, TxtTitleOne, <<>>, <<>>) : ck \in SidCookies}
    \cup {Call(TxtCookieSid, TRUE, FALSE, MaxBooks, ExManyTokens, <<TxtAuthorZ>>, <<>>)}
    \cup {Call(TxtCookieSid, TRUE, TRUE, MaxBooks, TxtTitleStop, <<TxtAuthorZ>>, <<>>),
          Call(TxtCookieSid, TRUE, FALSE, 0, TxtTitleOne, <<>>, <<>>),
          Call(TxtCookieSid, TRUE, FALSE, PoolCap + 1, TxtTitleOne, <<>>, <<>>)}

\* ---------------------------------------------------------------------
\* State
\* ---------------------------------------------------------------------
VARIABLES
    max_workers,          \* JinjiangBookSearcher.max_workers
    login_cookie,         \* JinjiangBookSearcher.jinjiang_login_cookie
    sid,                  \* JinjiangBookSearcher.sid (<<>> for None)
    prefer_app_api,       \* jinjiang_prefer_app_api
    search_with_author,   \* jinjiang_search_with_author
    title, authors, identifiers,   \* the arguments of identify
    pc,                   \* where identify is: start, fanout, emit, put, done
    stage,                \* the search stage running: none, primary, author, variation
    var_i,                \* index of the title variation being tried
    searches,             \* log of the search_books calls
    requests,             \* search requests made by the latest search_books call
    candidates,           \* book_urls of the latest search_books call
    queue,                \* submitted load_book tasks not yet started
    running,              \* load_book tasks in flight
    completed,            \* load_book calls completed since the stage began
    books,                \* the record list search_books collects
    produced,             \* log: the records the completed fetches produced
    last,                 \* log: the call completed by the latest step
    result_queue,         \* the queue identify puts Metadata on
    emit_i,               \* position of the emit loop in books
    abort,                \* the abort event
    abort_at,             \* log: where identify was when abort was set
    raised                \* identify has raised

cfg_vars   == <<max_workers, login_cookie, sid, prefer_app_api, search_with_author,
                title, authors, identifiers>>
search_vars == <<stage, var_i, searches, requests, candidates>>
pool_vars  == <<queue, running, completed, books, produced>>
vars == <<cfg_vars, pc, search_vars, pool_vars, last, result_queue, emit_i,
          abort, abort_at, raised>>

NoCall == [op |-> "none"]
NotAborted == [pc |-> "none", qlen |-> 0]

Init ==
    /\ \E c \in Calls :
          /\ login_cookie = c.login_cookie
          /\ sid = extract_sid_from_cookie(c.login_cookie)
          /\ prefer_app_api = c.prefer_app_api
          /\ search_with_author = c.search_with_author
          /\ max_workers = c.max_workers
          /\ title = c.title
          /\ authors = c.authors
          /\ identifiers = c.identifiers
    /\ pc = "start"
    /\ stage = "none"
    /\ var_i = 0
    /\ searches = <<>>
    /\ requests = 0
    /\ candidates = <<>>
    /\ queue = <<>>
    /\ running = <<>>
    /\ completed = 0
    /\ books = <<>>
    /\ produced = <<>>
    /\ last = NoCall
    /\ result_queue = <<>>
    /\ emit_i = 0
    /\ abort = FALSE
    /\ abort_at = NotAborted
    /\ raised = FALSE

\* ---------------------------------------------------------------------
\* identify
\* ---------------------------------------------------------------------
\* lines 1774-1775
cleaned_title == IF title # <<>> THEN normalize_query(title) ELSE <<>>
cleaned_authors == [i \in 1..Len(authors) |-> normalize_query(authors[i])]
variations == generate_title_variations(cleaned_title)

\* get_book_url: the detail URL of the provider's id, NoUrl (None) without one
NoUrl == [none |-> TRUE]

get_book_url_absent(ids) == NoUrl

get_book_url(ids) == IF ids # <<>> THEN DetailUrl(ids) ELSE NoUrl

\* the as_completed loop of search_books has consumed every future
AllCompleted(q, r) == q = <<>> /\ r = <<>>

\* line 1785: `if not books and cleaned_authors`
RetryAuthorsAlways(bks) == cleaned_authors # <<>>

RetryAuthors(bks) == bks = <<>> /\ cleaned_authors # <<>>

\* line 1796: `if not books and cleaned_title`
RetryVariations(bks) == bks = <<>> /\ cleaned_title # <<>>

\* the variation loop goes on after a variation that found books
NextStageNoBreak(stg, vi, bks) ==
    IF stg = "primary" /\ RetryAuthors(bks) THEN "author"
    ELSE IF stg \in {"primary", "author"}
         THEN IF RetryVariations(bks) /\ variations # <<>> THEN "variation" ELSE "emit"
    ELSE IF vi < Len(variations) THEN "variation" ELSE "emit"

\* lines 1785-1805: what identify does when a search_books call returned
\* bks in stage stg: the next stage, or "emit" for the loop over the result
NextStage(stg, vi, bks) ==
    IF stg = "primary" /\ RetryAuthors(bks) THEN "author"
    ELSE IF stg \in {"primary", "author"}
         THEN IF RetryVariations(bks) /\ variations # <<>> THEN "variation" ELSE "emit"
    ELSE IF bks = <<>> /\ vi < Len(variations) THEN "variation" ELSE "emit"

\* the entry search_books leaves in the log: the query it was given and the
\* keyword and search type parse_search_keyword made of it
SearchLog(stg, query, kw) ==
    [stage |-> stg, query |-> query, keyword |-> kw[1], type |-> kw[2]]

\* the outcome r of search_via_app_api: one load_book task is submitted per
\* candidate URL
Submitted(r) ==
    /\ requests' = r.requests
    /\ candidates' = r.urls
    /\ queue' = r.urls

\* one search_books call up to the submission of the fetches: the query is
\* enhanced and classified, the search requests are answered by res1 and
\* res2 and the candidates are submitted to the pool
SearchBooks(stg, vi, query) ==
    /\ stage' = stg
    /\ var_i' = vi
    /\ searches' = Append(searches, SearchLog(stg, query,
                        parse_search_keyword(
                            EnhancedQuery(query, authors, search_with_author))))
    /\ running' = <<>>
    /\ completed' = 0
    /\ books' = <<>>
    /\ produced' = <<>>
    /\ last' = NoCall
    /\ pc' = "fanout"
    /\ \E res1 \in SearchAnswers(max_workers) :
       \E res2 \in SecondAnswers(sid, max_workers, res1) :
         Submitted(search_via_app_api(sid, max_workers, res1, res2))
    /\ UNCHANGED <<cfg_vars, result_queue, emit_i, abort, abort_at, raised>>

\* lines 1761-1766: the external id is present
ByIdLoaded(url, s, out) ==
    /\ last' = [op |-> "load_book", url |-> url, s |-> s, out |-> out]
    /\ IF out.book = Raised
       THEN /\ raised' = TRUE
            /\ pc' = "done"
            /\ UNCHANGED books
       ELSE /\ books' = IF out.book # NoBook THEN <<out.book>> ELSE <<>>
            /\ pc' = "emit"
            /\ UNCHANGED raised

ByIdLookup ==
    /\ pc = "start"
    /\ get_book_url(identifiers) # NoUrl
    /\ \E s \in Scripts :
         ByIdLoaded(get_book_url(identifiers), s,
                    load_book(get_book_url(identifiers), ScriptOf(s), prefer_app_api, sid))
    /\ completed' = 1
    /\ emit_i' = 1
    /\ UNCHANGED <<cfg_vars, search_vars, queue, running, produced, result_queue,
                   abort, abort_at>>

\* a call without id, title and authors that searches all the same
NoInputSearches ==
    /\ pc = "start"
    /\ get_book_url(identifiers) = NoUrl
    /\ title = <<>> /\ authors = <<>>
    /\ SearchBooks("primary", 0, <<>>)

\* lines 1769-1771: nothing to search for
NoInput ==
    /\ pc = "start"
    /\ get_book_url(identifiers) = NoUrl
    /\ title = <<>> /\ authors = <<>>
    /\ pc' = "done"
    /\ UNCHANGED <<cfg_vars, search_vars, pool_vars, last, result_queue, emit_i,
                   abort, abort_at, raised>>

\* line 1779
PrimarySearch ==
    /\ pc = "start"
    /\ get_book_url(identifiers) = NoUrl
    /\ title # <<>> \/ authors # <<>>
    /\ SearchBooks("primary", 0,
                   IF cleaned_title # <<>> THEN cleaned_title
                   ELSE JoinSpace(cleaned_authors))

\* lines 1785-1790
AuthorOnlyRetry ==
    /\ pc = "fanout"
    /\ AllCompleted(queue, running)
    /\ NextStage(stage, var_i, books) = "author"
    /\ SearchBooks("author", 0, <<35>> \o JoinSpace(cleaned_authors) \o <<35>>)

\* lines 1796-1805
VariationRetry ==
    /\ pc = "fanout"
    /\ AllCompleted(queue, running)
    /\ NextStage(stage, var_i, books) = "variation"
    /\ SearchBooks("variation", var_i + 1, variations[var_i + 1])

\* the searches are over: identify enters the loop over books
FanOutDone ==
    /\ pc = "fanout"
    /\ AllCompleted(queue, running)
    /\ NextStage(stage, var_i, books) = "emit"
    /\ pc' = "emit"
    /\ emit_i' = 1
    /\ last' = NoCall
    /\ UNCHANGED <<cfg_vars, search_vars, pool_vars, result_queue, abort, abort_at,
                   raised>>

\* a pool thread takes the oldest submitted task
TaskStart ==
    /\ pc = "fanout"
    /\ queue # <<>>
    /\ Len(running) < max_workers_safe(max_workers)
    /\ running' = Append(running, Head(queue))
    /\ queue' = Tail(queue)
    /\ last' = NoCall
    /\ UNCHANGED <<cfg_vars, pc, search_vars, completed, books, produced,
                   result_queue, emit_i, abort, abort_at, raised>>

\* a load_book task completes and as_completed hands it to search_books
TaskLoaded(i, s, out) ==
    /\ running' = SubSeq(running, 1, i - 1) \o SubSeq(running, i + 1, Len(running))
    /\ books' = Collect(books, out.book)
    /\ produced' = IF out.book \notin {NoBook, Raised}
                   THEN Append(produced, out.book) ELSE produced
    /\ last' = [op |-> "load_book", url |-> running[i], s |-> s, out |-> out]

TaskFinish ==
    /\ pc = "fanout"
    /\ \E i \in {j \in 1..Len(running) : \A k \in 1..(j - 1) : running[k] # running[j]} :
       \E s \in PoolScripts(running[i]) :
         TaskLoaded(i, s, load_book(running[i], ScriptOf(s), prefer_app_api, sid))
    /\ completed' = completed + 1
    /\ UNCHANGED <<cfg_vars, pc, search_vars, queue, result_queue, emit_i,
                   abort, abort_at, raised>>

\* the loop head without the abort poll
EmitPollNoAbort ==
    /\ pc = "emit"
    /\ pc' = IF emit_i > Len(books) THEN "done" ELSE "put"
    /\ last' = NoCall
    /\ UNCHANGED <<cfg_vars, search_vars, pool_vars, result_queue, emit_i,
                   abort, abort_at, raised>>

\* lines 1807-1809: the loop head and the abort poll
EmitPoll ==
    /\ pc = "emit"
    /\ pc' = IF emit_i > Len(books) \/ abort THEN "done" ELSE "put"
    /\ last' = NoCall
    /\ UNCHANGED <<cfg_vars, search_vars, pool_vars, result_queue, emit_i,
                   abort, abort_at, raised>>

\* lines 1810-1831: the record is converted and put on the queue
EmitPut ==
    /\ pc = "put"
    /\ result_queue' = Append(result_queue, to_metadata(books[emit_i]))
    /\ emit_i' = emit_i + 1
    /\ pc' = "emit"
    /\ UNCHANGED <<cfg_vars, search_vars, pool_vars, last, abort, abort_at, raised>>

\* the caller sets the abort event while identify runs
SetAbort ==
    /\ ~abort
    /\ pc # "done"
    /\ abort' = TRUE
    /\ abort_at' = [pc |-> pc, qlen |-> Len(result_queue)]
    /\ UNCHANGED <<cfg_vars, pc, search_vars, pool_vars, last, result_queue, emit_i,
                   raised>>

\* the stand-alone script fetches the payload of one id
FetchBasic ==
    /\ pc = "start"
    /\ identifiers # <<>>
    /\ \E s \in Scripts :
         last' = [op |-> "get_novel_basic", novelid |-> identifiers, s |-> s,
                  out |-> get_novel_basic(identifiers, ScriptOf(s))]
    /\ pc' = "done"
    /\ UNCHANGED <<cfg_vars, search_vars, pool_vars, result_queue, emit_i,
                   abort, abort_at, raised>>

Next ==
    \/ ByIdLookup
    \/ NoInput
    \/ PrimarySearch
    \/ AuthorOnlyRetry
    \/ VariationRetry
    \/ FanOutDone
    \/ TaskStart
    \/ TaskFinish
    \/ EmitPoll
    \/ EmitPut
    \/ SetAbort
    \/ FetchBasic

Spec == Init /\ [][Next]_vars

\* ---------------------------------------------------------------------
\* The functions called on their own, as single_test.py and the fetch
\* script call them: one call per behaviour, its argument and result kept
\* in `last`
\* ---------------------------------------------------------------------
\* longest generated remainder of a query
MaxBody == 2

\* the texts over an alphabet up to a length
TextsUpTo(chars, n) == UNION {[1..k -> chars] : k \in 0..n}

\* the examples of the classifier
ExAuthorColon == <<20316, 32773, 58, 24352, 19977>>
ExAuthorHash  == <<35, 24352, 19977, 35>>
ExTypeFour    == <<116, 61, 52, 32, 26446, 22235>>
ExPlainTitle  == <<38543, 20415, 20070, 21517>>

\* queries are a label (or none), a separator (or none) and a remainder
QueryPrefixes ==
    {<<>>, <<116>>, <<84>>, <<116, 121, 112, 101>>, <<84, 121, 112, 101>>,
     <<20316, 32773>>, <<97, 117, 116, 104, 111, 114>>, <<65, 117, 116, 104, 111, 114>>,
     <<20027, 35282>>, <<37197, 35282>>, <<20854, 20182>>, <<20854, 23427>>,
     <<111, 116, 104, 101, 114>>, <<73, 68>>, <<105, 100>>, <<105, 68>>,
     <<25991, 31456, 73, 68>>, <<25991, 31456, 105, 100>>}
QuerySeps == {<<>>, <<61>>, <<58>>, <<65306>>, <<35>>, <<32, 58, 32>>}
QueryBodies ==
    TextsUpTo({120, 52, 51, 32, 35}, MaxBody)
    \cup {ExAuthorColon, ExAuthorHash, ExTypeFour, ExPlainTitle}

\* longest generated text handed to normalize_query
MaxText == 3
\* a full-width letter, the four bracket styles, both spaces, an ideographic stop
NormalizeChars == {65313, 65288, 65289, 40, 41, 91, 93, 12304, 12305, 32, 12288, 12290}

\* most words of a generated title
MaxWords == 3
TitleWords ==
    {<<>>, <<97>>, <<97, 98>>, <<99, 100>>, <<97, 98, 99>>, <<23436, 32467>>,
     <<97, 98, 23436, 32467>>}
ExStopTitle ==
    <<24635, 26377, 32769, 24072, 35201, 35831, 23478, 38271, 23436, 32467>>
ExStopTitleShort == <<24635, 26377, 32769, 24072, 35201, 35831, 23478, 38271>>
Titles ==
    {JoinSpace(ws) : ws \in TextsUpTo(TitleWords, MaxWords)}
    \cup {ExStopTitle, ExManyTokens}

\* payloads for the lookups: one object, or an object with a second one
\* inside an envelope, or a list holding one; each level spells the two
\* candidate keys in some casing or leaves them out
LookupKeys == <<"bookname", "novelName">>
FirstCasings  == {"", "bookname", "bookName", "BOOKNAME"}
SecondCasings == {"", "novelName", "novelname", "NovelName"}
Levels == [c1 : FirstCasings, c2 : SecondCasings, blank : BOOLEAN]
NoLevel == [c1 |-> "", c2 |-> "", blank |-> FALSE]
Field(c, v) == IF c = "" THEN [k \in {} |-> JNull] ELSE (c :> v)
\* the values name the level and the key they sit under
TopValues  == <<JStr(<<116, 49>>), JStr(<<116, 50>>)>>
DeepValues == <<JStr(<<100, 49>>), JStr(<<100, 50>>)>>
LevelFields(lv, vals) ==
    Field(lv.c1, IF lv.blank THEN JEmpty ELSE vals[1]) @@ Field(lv.c2, vals[2])
Shapes ==
    {[top |-> t, env |-> "none", deep |-> NoLevel] : t \in Levels}
    \cup [top : Levels, env : {"data", "novel"}, deep : Levels]
    \cup {[top |-> NoLevel, env |-> "list", deep |-> d] : d \in Levels}
PayloadOf(sh) ==
    CASE sh.env = "none" -> JObj(LevelFields(sh.top, TopValues))
      [] sh.env = "list" -> JList(<<JObj(LevelFields(sh.deep, DeepValues))>>)
      [] OTHER -> JObj(LevelFields(sh.top, TopValues)
                       @@ (sh.env :> JObj(LevelFields(sh.deep, DeepValues))))

\* the envelopes a detail answer comes in, around the object of one book
EnvelopeShapes ==
    {"code_data", "code_data_book", "code_data_novel", "data_book", "data_novel",
     "list", "bare"}
Wrap(shape, inner) ==
    CASE shape = "code_data" -> JObj([code |-> JNum(0), data |-> inner])
      [] shape = "code_data_book" ->
            JObj([code |-> JNum(0), data |-> JObj([book |-> inner])])
      [] shape = "code_data_novel" ->
            JObj([code |-> JNum(0), data |-> JObj([novel |-> inner])])
      [] shape = "data_book" -> JObj([data |-> JObj([book |-> inner])])
      [] shape = "data_novel" -> JObj([data |-> JObj([novel |-> inner])])
      [] shape = "list" -> JList(<<inner>>)
      [] OTHER -> inner

\* longest generated author text, over two names and three delimiters
MaxAuthorText == 3
AuthorTexts == TextsUpTo({90, 87, 44, 32, 12289}, MaxAuthorText)
BookNames == {TxtT, <<89>>}

\* raw cover values: optional blank, a scheme or slash prefix, a remainder
ExCover ==
    <<47, 47, 105, 109, 103, 46, 101, 120, 97, 109, 112, 108, 101, 47, 120, 46, 106, 112,
      103>>
ExRelative == <<120, 46, 106, 112, 103>>
CoverTexts ==
    {ws \o pre \o r :
        ws \in {<<>>, <<32>>},
        pre \in {<<>>, <<47, 47>>, <<47>>, <<104, 116, 116, 112, 58, 47, 47>>,
                 <<104, 116, 116, 112, 115, 58, 47, 47>>, <<100, 97, 116, 97, 58>>,
                 <<102, 116, 112, 58>>},
        r \in {<<>>, <<120>>, <<105, 47, 120>>}}
    \cup {ExCover, ExRelative}

\* web pages: whether lxml yields a document, and the text nodes of the
\* title, author and tag elements the xpaths select
PageUrls == {DetailUrl(TxtId12), DetailUrl(TxtIdAB), DetailUrl(<<>>), DetailUrl(<<49, 97>>)}
TitleElements  == {<<>>, <<<<TxtT>>>>, <<<<<<32>>>>>>, <<<<<<32>>>>, <<TxtT>>>>}
AuthorElements == {<<>>, <<<<TxtA>>>>, <<<<<<>>>>>>}
TagElements ==
    {<<>>, <<<<<<120>>>>>>, <<<<<<120>>>>, <<<<121>>>>>>, <<<<<<120>>>>, <<<<120>>>>>>,
     <<<<<<120>>>>, <<<<121>>>>, <<<<120>>>>>>}
Pages ==
    [doc : BOOLEAN, title_elements : TitleElements, author_elements : AuthorElements,
     img_src : {<<47, 99>>}, summary_elements : {<<>>}, tag_elements : TagElements]

\* detail and enrichment answers that carry tags and a genre
BaseTagTexts == {<<>>, <<120>>, <<120, 44, 121>>, <<120, 44, 120>>, <<121, 44, 120, 44, 121>>}
Categories   == {<<>>, <<120>>, <<71>>}
NovelClasses == {<<>>, <<71>>, <<121>>}
NovelTagTexts ==
    {<<>>, <<120>>, <<122, 32, 121>>, <<121, 47, 121>>, <<71, 44, 122>>}
TaggedDetail(tags, category) ==
    RespOf(200, JObj([code |-> JNum(0),
                      data |-> JObj([bookname |-> JStr(TxtT), author |-> JStr(TxtA),
                                     tags |-> JStr(tags), category |-> JStr(category)])]))
TaggedOther(class, tags) ==
    RespOf(200, JObj([foo |-> JStr(<<98, 97, 114>>), novelClass |-> JStr(class),
                      novelTags |-> JStr(tags)]))

\* configured concurrency limits: below the clamp, inside it, above it
SearchLimits == {0, 1, MaxBooks, PoolCap + 1}

\* isSign values: absent, booleans, numbers, and texts
MaxSignText == 2
SignValues ==
    {JNull, JEmpty, JBool(TRUE), JBool(FALSE), JNum(0), JNum(1), JNum(2),
     JStr(<<116, 114, 117, 101>>), JStr(<<84, 82, 85, 69>>), JStr(<<84, 114, 117, 101>>),
     JStr(<<121, 101, 115>>), JStr(<<89, 101, 115>>), JStr(<<110, 111>>),
     JStr(<<102, 97, 108, 115, 101>>)}
    \cup {JStr(t) : t \in TextsUpTo({48, 49, 50, 32, 45, 120}, MaxSignText)}

UnitInit == Init /\ title = <<>> /\ authors = <<>> /\ identifiers = <<>>

\* the result of one call is recorded and the run ends
Called(call) ==
    /\ pc = "start"
    /\ last' = call
    /\ pc' = "done"
    /\ UNCHANGED <<cfg_vars, search_vars, pool_vars, result_queue, emit_i,
                   abort, abort_at, raised>>

Classify ==
    /\ pc = "start"
    /\ \E pre \in QueryPrefixes, sep \in QuerySeps, body \in QueryBodies :
           Called([op |-> "parse_search_keyword", query |-> pre \o sep \o body,
                   prefix |-> pre, out |-> parse_search_keyword(pre \o sep \o body)])

Normalize ==
    /\ pc = "start"
    /\ \E s \in TextsUpTo(NormalizeChars, MaxText) :
           Called([op |-> "normalize_query", s |-> s, out |-> normalize_query(s)])

Variations ==
    /\ pc = "start"
    /\ \E t \in Titles :
           Called([op |-> "generate_title_variations", s |-> t,
                   out |-> generate_title_variations(t)])

Lookup ==
    /\ pc = "start"
    /\ \E sh \in Shapes, fn \in {"pick", "_pick_from"} :
           Called([op |-> "lookup", fn |-> fn, shape |-> sh,
                   out |-> IF fn = "pick" THEN pick(PayloadOf(sh), LookupKeys)
                           ELSE _pick_from(PayloadOf(sh), LookupKeys)])

\* the detail and enrichment answers of the detail attempts: a payload in
\* each envelope, answers that carry tags and a genre, and enrichment
\* answers that carry isSign; `call` is what the attempt is recorded with
ShapedAttempts ==
    {[call |-> [op |-> "detail", shape |-> shape, bookname |-> y, author |-> a],
      res |-> RespOf(200, Wrap(shape, JObj([bookname |-> JStr(y), author |-> JStr(a)]))),
      other |-> OtherAnswers[o]] :
        shape \in EnvelopeShapes, y \in BookNames, a \in AuthorTexts,
        o \in {1, Len(OtherAnswers)}}
TaggedAttempts ==
    {[call |-> [op |-> "tagged", enriched |-> FALSE, tags |-> tags,
                category |-> category, class |-> <<>>, novelTags |-> <<>>],
      res |-> TaggedDetail(tags, category),
      other |-> OtherAnswers[1]] :
        tags \in BaseTagTexts, category \in Categories}
    \cup {[call |-> [op |-> "tagged", enriched |-> TRUE, tags |-> tags,
                     category |-> category, class |-> class, novelTags |-> nt],
           res |-> TaggedDetail(tags, category),
           other |-> TaggedOther(class, nt)] :
             tags \in BaseTagTexts, category \in Categories,
             class \in NovelClasses, nt \in NovelTagTexts}
SignedAttempts ==
    {[call |-> [op |-> "signed", isSign |-> v],
      res |-> DetailAnswers[1],
      other |-> RespOf(200, JObj([foo |-> JStr(<<98, 97, 114>>), isSign |-> v]))] :
        v \in SignValues}

\* one detail answer through the envelope recogniser, the builder, the
\* enrichment and the gate
Detail ==
    /\ pc = "start"
    /\ \E x \in ShapedAttempts \cup TaggedAttempts \cup SignedAttempts :
           Called([out |-> DetailAttempt(TxtId12, x.res, x.other).book] @@ x.call)

Cover ==
    /\ pc = "start"
    /\ \E raw \in CoverTexts, impl \in {"json", "html", "script"} :
           Called([op |-> "cover", impl |-> impl, raw |-> raw,
                   out |-> CASE impl = "json" -> NormalizeCover(Strip(raw))
                             [] impl = "html" -> HtmlCover(Strip(raw))
                             [] OTHER -> normalize_cover_url(raw)])

ParsePage ==
    /\ pc = "start"
    /\ \E url \in PageUrls, page \in Pages :
           Called([op |-> "parse_book", url |-> url, page |-> page,
                   out |-> parse_book(url, page)])

\* one search with a session id: the answers of the two endpoints
Search ==
    /\ pc = "start"
    /\ \E mw \in SearchLimits :
           \E res1 \in SearchAnswers(mw) :
               \E res2 \in SecondAnswers(TxtSid, mw, res1) :
                   Called([op |-> "search", max_workers |-> mw, res1 |-> res1, res2 |-> res2,
                           out |-> search_via_app_api(TxtSid, mw, res1, res2)])

UnitNext ==
    \/ Classify
    \/ Normalize
    \/ Variations
    \/ Lookup
    \/ Detail
    \/ Cover
    \/ ParsePage
    \/ Search

UnitSpec == UnitInit /\ [][UnitNext]_vars

\* ---------------------------------------------------------------------
\* Properties
\* ---------------------------------------------------------------------
\* the call is one of identify, not of the stand-alone script
IsIdentify == last.op # "get_novel_basic"

\* the JSON detail path is taken by load_book
AppPath == prefer_app_api /\ sid # <<>>

\* C1: with the provider's id among the identifiers, identify makes exactly
\* one load_book call and no search, whatever title and authors are, and
\* when the fetch yields no record the result stays empty
C1_ByIdOneFetch ==
    (identifiers # <<>> /\ IsIdentify) =>
        /\ searches = <<>> /\ requests = 0 /\ candidates = <<>>
        /\ queue = <<>> /\ running = <<>>
        /\ completed = (IF pc = "start" THEN 0 ELSE 1)
        /\ Len(books) <= 1
        /\ (books = <<>> => result_queue = <<>>)

C1_Witness ==
    /\ identifiers # <<>> /\ title # <<>> /\ IsIdentify
    /\ pc = "done" /\ completed = 1 /\ books = <<>> /\ searches = <<>>

\* the shape of the search log: the primary search with the cleaned title
\* (or the joined cleaned authors), then at most one author-only search with
\* the bracketed authors, then the variations in list order
OrderInv ==
    LET n    == Len(searches)
        hasA == n >= 2 /\ searches[2].stage = "author"
        off  == IF hasA THEN 2 ELSE 1
    IN  /\ (n >= 1 =>
              /\ searches[1].stage = "primary"
              /\ searches[1].query = (IF cleaned_title # <<>> THEN cleaned_title
                                      ELSE JoinSpace(cleaned_authors)))
        /\ (hasA =>
              /\ cleaned_authors # <<>>
              /\ searches[2].query = <<35>> \o JoinSpace(cleaned_authors) \o <<35>>)
        /\ (n >= 2 /\ ~hasA => cleaned_authors = <<>>)
        /\ \A k \in (off + 1)..n :
              /\ searches[k].stage = "variation"
              /\ cleaned_title # <<>>
              /\ k - off <= Len(generate_title_variations(cleaned_title))
              /\ searches[k].query = generate_title_variations(cleaned_title)[k - off]

\* a retry is issued only when the search before it ended with no record
RetryAfterEmpty == (searches' # searches /\ searches # <<>>) => books = <<>>

\* C2: without an id the searches go primary, author-only, variations in
\* list order; the author-only retry needs an empty primary result and
\* cleaned authors, a variation an empty result and a cleaned title, and no
\* variation follows one that found a record
C2_SearchOrder == []OrderInv /\ [][RetryAfterEmpty]_vars

C2_Witness ==
    /\ Len(searches) = 3 /\ searches[2].stage = "author"
    /\ searches[3].stage = "variation"
    /\ Len(variations) = 2
    /\ books # <<>> /\ pc = "done"

\* C3 as stated: once a search has returned candidates no further search
\* is issued
C3_NoRetryAfterCandidates == [][candidates # <<>> => searches' = searches]_vars

\* C3: a retry is entered only on an empty record list, after every fetch
\* of the stage has completed; once a stage has a record no search follows
C3_RetryOnEmptyRecords ==
    [][searches' # searches =>
          /\ books = <<>>
          /\ queue = <<>> /\ running = <<>>
          /\ completed = Len(candidates)]_vars

\* every fetch of a stage with candidates failed and a retry is due
C3_Witness ==
    /\ pc = "fanout" /\ candidates # <<>>
    /\ completed = Len(candidates) /\ queue = <<>> /\ running = <<>>
    /\ books = <<>>
    /\ Len(searches) >= 2

\* C4 as stated: every queued record has a title and an authors list
C4_TitleAndAuthors ==
    \A i \in 1..Len(result_queue) :
        result_queue[i].title # <<>> /\ result_queue[i].authors # <<>>

\* C4: every queued record has a title; one built from the JSON detail
\* payload also has an authors list
C4_QueuedGate ==
    \A i \in 1..Len(result_queue) :
        /\ result_queue[i].title # <<>>
        /\ (result_queue[i].via = "app" => result_queue[i].authors # <<>>)

C4_Witness ==
    \E i \in 1..Len(result_queue) :
        /\ result_queue[i].via = "html"
        /\ result_queue[i].title # <<>>
        /\ result_queue[i].authors = <<>>

\* C5: a record of the JSON detail path has a title and authors; when no
\* attempt passes the gate the path returns None and load_book requests the
\* web page
C5_AppGate ==
    (last.op = "load_book" /\ AppPath) =>
        IF last.out.book # NoBook /\ last.out.book.via = "app"
        THEN /\ last.out.book.title # <<>>
             /\ last.out.book.authors # <<>>
             /\ ~last.out.html
        ELSE last.out.html

\* the payload parsed, the gate failed on every attempt, the page was asked
C5_Witness ==
    /\ last.op = "load_book" /\ AppPath
    /\ last.s.fails = 0 /\ last.s.d = 2
    /\ last.out.others = 3 * 4
    /\ last.out.html
    /\ last.out.book # NoBook /\ last.out.book.via = "html"

\* the attempts of script s that validate: for load_book the record passes
\* the gate, for get_novel_basic a title, an author or the id resolves
ValidAttempts(op, s) ==
    {i \in 1..(3 * 4) :
        \/ i > s.fails /\ s.d = 1
        \/ op = "get_novel_basic" /\ i > s.fails /\ s.d = 2
        \/ op = "get_novel_basic" /\ i <= s.fails /\ (i - 1) % 6 = 5}

\* the value returned is a payload or record rather than None
Found(call) ==
    IF call.op = "load_book"
    THEN call.out.book # NoBook /\ call.out.book.via = "app"
    ELSE call.out.data # JNull

Least(S) == CHOOSE i \in S : \A j \in S : i <= j

\* C6: the requests go through 3 endpoints x 4 parameter names
\* endpoint-major, at most 12; the first attempt that validates ends them
\* and None comes only after all 12
C6_EndpointMajor ==
    (last.op \in {"load_book", "get_novel_basic"}
        /\ (last.op = "load_book" => AppPath)) =>
        LET tried == last.out.tried
            valid == ValidAttempts(last.op, last.s)
        IN  /\ Len(tried) <= 3 * 4
            /\ \A i \in 1..Len(tried) :
                  tried[i] = <<detail_endpoints[((i - 1) \div 4) + 1],
                               param_variants[((i - 1) % 4) + 1]>>
            /\ Found(last) = (valid # {})
            /\ Len(tried) = (IF valid # {} THEN Least(valid) ELSE 3 * 4)

\* eleven attempts failed in every way and the twelfth validated
C6_Witness ==
    /\ last.op = "load_book" /\ AppPath
    /\ last.s.fails = 3 * 4 - 1
    /\ Len(last.out.tried) = 3 * 4
    /\ Found(last)

\* C7 as stated: when the auxiliary call fails, or its payload resolves no
\* extended field, the record is the base record
C7_BaseUnmodified ==
    (last.op = "load_book" /\ AppPath /\ Found(last) /\ last.s.o <= 6) =>
        last.out.book =
            BaseBook(AppData(DetailAnswers[last.s.d].body, last.url.novelid),
                     last.url.novelid)

\* C8: at most max(1, min(L, 20)) load_book tasks are in flight, and
\* search_books returns only when every submitted fetch has completed
C8_InFlightBound ==
    /\ Len(running) <= (IF max_workers < 1 THEN 1
                        ELSE IF max_workers > PoolCap THEN PoolCap
                        ELSE max_workers)
    /\ (pc # "fanout" /\ stage # "none" =>
            queue = <<>> /\ running = <<>> /\ completed = Len(candidates))

\* the clamp binds: the pool is full and tasks wait
C8_Witness ==
    /\ max_workers > PoolCap
    /\ Len(running) = PoolCap
    /\ queue # <<>>

\* C9: a failed fetch leaves the batch standing: the records collected are
\* those the completed fetches produced, in completion order, and identify
\* does not raise
C9_BatchSurvives ==
    /\ ~raised
    /\ books = (IF stage = "none" THEN books ELSE produced)
    /\ (stage # "none" => Len(books) <= completed /\ completed <= Len(candidates))

\* the fetch of the candidate submitted first failed, the other's record
\* is the result
C9_Witness ==
    /\ pc = "fanout" /\ Len(candidates) = 2 /\ completed = 2
    /\ Len(books) = 1 /\ books[1].url = candidates[2]
    /\ candidates[1] # candidates[2]

\* C10 as stated: abort set before identify has finished leaves nothing
\* on the queue
C10_AbortDeliversNothing == (abort /\ pc = "done") => result_queue = <<>>

\* C10: abort is polled before each put: the records put before abort
\* was set stay, and after it at most the record whose poll had passed
\* follows
C10_AbortPolled ==
    abort =>
        /\ Len(result_queue) >= abort_at.qlen
        /\ Len(result_queue) <= abort_at.qlen + (IF abort_at.pc = "put" THEN 1 ELSE 0)

\* abort came between the poll and the put of the second record: two
\* records are on the queue and the rest is not delivered
C10_Witness ==
    /\ abort /\ pc = "done"
    /\ abort_at.pc = "put" /\ abort_at.qlen = 1
    /\ Len(result_queue) = 2
    /\ emit_i <= Len(books)

\* identify was called without an external id, a title and authors
NothingGiven == identifiers = <<>> /\ title = <<>> /\ authors = <<>>

\* C11: a call of identify without an external id, without a title and
\* without authors issues no search request, starts no detail fetch (hence no
\* detail, enrichment or web-page request), puts nothing on the result queue
\* and does not raise; it goes from its start straight to its end.
C11_NoInputNoRequest ==
    NothingGiven =>
        /\ pc \in {"start", "done"}
        /\ searches = <<>> /\ requests = 0 /\ candidates = <<>>
        /\ queue = <<>> /\ running = <<>> /\ completed = 0
        /\ last = NoCall
        /\ books = <<>> /\ result_queue = <<>>
        /\ ~raised

C11_Witness == NothingGiven /\ pc = "done" /\ result_queue = <<>> /\ ~raised

\* C12 as stated: whenever the web page of a candidate is requested, all the
\* JSON detail combinations were requested for it before, under every
\* configuration.
C12_HtmlOnlyAfterJson ==
    (last.op = "load_book" /\ last.out.html) =>
        Len(last.out.tried) = Len(detail_endpoints) * Len(param_variants)

\* C12: with a session id and the APP API preferred, the web page of a
\* candidate is requested only after every JSON detail combination was
\* requested and none gave a record passing the gate; without a session id or
\* with the APP API not preferred no JSON detail request is made and the web
\* page is requested at once.  On the by-id path and on the search path.
C12_HtmlAfterJsonWhenPreferred ==
    last.op = "load_book" =>
        IF AppPath
        THEN last.out.html =>
               /\ Len(last.out.tried) = Len(detail_endpoints) * Len(param_variants)
               /\ ~Found(last)
               /\ (last.out.book # NoBook => last.out.book.via = "html")
        ELSE /\ last.out.tried = <<>>
             /\ last.out.others = 0
             /\ (extract_novelid(last.url) # <<>> => last.out.html)

C12_Witness ==
    /\ last.op = "load_book" /\ stage # "none" /\ sid # <<>> /\ ~prefer_app_api
    /\ last.out.html /\ last.out.tried = <<>>
    /\ last.out.book # NoBook

\* the forms of a stripped query q, as the classifier's contract lists them
Intents == {"author", "protagonist", "supporting", "other", "id"}
BracketLabels ==
    [author |-> <<>>, protagonist |-> <<20027, 35282>>, supporting |-> <<37197, 35282>>,
     other |-> <<20854, 20182>>, id |-> <<73, 68>>]
TypeCode(q) == IF TypeMatch(q) = NoMatch THEN 0 ELSE TextToInt(TypeMatch(q)[1])
KnownType(q) == TypeCode(q) \in {1, 2, 4, 5, 6, 7}
Labelled(q, k) == LabelMatch(q, PrefixLabels[k]) # NoMatch
InBrackets(q, k) == Bracketed(q, BracketLabels[k])

\* C13: the classifier tries (1) the t=/type= prefix with a known code,
\* (2) a label followed by a colon, (3) the bracketed #...# notation, (4) the
\* fallback, and the first form that matches decides the result; the four
\* examples classify as stated; a query matching no form, a code outside
\* {1,2,4,5,6,7} and the empty query come back unchanged as a title search.
C13_FirstFormWins ==
    last.op = "parse_search_keyword" =>
        LET query == last.query
            q     == Strip(query)
            out   == last.out
        IN  /\ IF query = <<>> THEN out = <<query, 1>>
               ELSE IF KnownType(q)
                 THEN out = <<IF Strip(TypeMatch(q)[2]) # <<>>
                              THEN Strip(TypeMatch(q)[2]) ELSE query, TypeCode(q)>>
               ELSE IF \E k \in Intents : Labelled(q, k)
                 THEN \E k \in Intents :
                        /\ Labelled(q, k)
                        /\ out = <<LabelMatch(q, PrefixLabels[k]), SEARCH_TYPE_MAP[k]>>
               ELSE IF \E k \in Intents : InBrackets(q, k)
                 THEN \E k \in Intents :
                        /\ InBrackets(q, k)
                        /\ out = <<IF k = "author" THEN Strip(StripHash(q))
                                   ELSE BracketInner(q, BracketLabels[k]),
                                   SEARCH_TYPE_MAP[k]>>
               ELSE out = <<query, 1>>
            /\ (query = ExAuthorColon => out = <<<<24352, 19977>>, 2>>)
            /\ (query = ExAuthorHash => out = <<<<24352, 19977>>, 2>>)
            /\ (query = ExTypeFour => out = <<<<26446, 22235>>, 4>>)
            /\ (query = ExPlainTitle => out = <<ExPlainTitle, 1>>)
            /\ (TypeMatch(q) # NoMatch /\ ~KnownType(q) => out = <<query, 1>>)

C13_Witness ==
    /\ last.op = "parse_search_keyword"
    /\ last.query = ExTypeFour
    /\ last.out = <<<<26446, 22235>>, 4>>

\* re.I the other way round
UpperText(s) == [i \in 1..Len(s) |-> IF s[i] \in 97..122 THEN s[i] - 32 ELSE s[i]]

\* the result of a query of another casing: the same intent, and the same
\* keyword unless each call handed back its own query as the keyword
SameClass(query, out, query2) ==
    LET out2 == parse_search_keyword(query2)
    IN  /\ out2[2] = out[2]
        /\ out2[1] = out[1] \/ (out[1] = query /\ out2[1] = query2)

\* C14: changing only the letter case of the label of a query never changes
\* the keyword and the intent the classifier returns, in every notation,
\* the bracketed one included.
C14_LabelCaseInsensitive ==
    last.op = "parse_search_keyword" =>
        LET rest == SubSeqFrom(last.query, Len(last.prefix) + 1)
        IN  /\ SameClass(last.query, last.out, LowerText(last.prefix) \o rest)
            /\ SameClass(last.query, last.out, UpperText(last.prefix) \o rest)

FullWidth == (65281..65374) \cup {12288}
BracketStyles == {<<40, 41>>, <<91, 93>>, <<65288, 65289>>, <<12304, 12305>>}
HasAnnotation(s) ==
    \E b \in BracketStyles : \E i, j \in 1..Len(s) : i < j /\ s[i] = b[1] /\ s[j] = b[2]

\* C15: normalize_query is idempotent, and its result holds no full-width
\* character, no bracket annotation of the four styles, no two consecutive
\* spaces and no leading or trailing whitespace.
C15_NormalizeIdempotent ==
    last.op = "normalize_query" =>
        LET out == last.out
        IN  /\ normalize_query(out) = out
            /\ \A i \in 1..Len(out) : out[i] \notin FullWidth
            /\ ~HasAnnotation(out)
            /\ \A i \in 1..Len(out) - 1 : ~(out[i] = 32 /\ out[i + 1] = 32)
            /\ out # <<>> => ~IsSpace(out[1]) /\ ~IsSpace(out[Len(out)])

C15_Witness ==
    /\ last.op = "normalize_query"
    /\ last.s = <<12304, 12305, 65313>>
    /\ last.out = <<65>>

\* C16: the variations are a list without duplicates and without empty
\* texts; the title without its stop-words comes first when it is non-empty
\* and differs from the title; then come at most 5 whitespace-separated
\* tokens of the title, each of 2 characters or more, longest first; the
\* list has at most 6 elements and is empty for the empty title.
C16_VariationsShape ==
    last.op = "generate_title_variations" =>
        LET t     == last.s
            out   == last.out
            short == Strip(CollapseSpaces(RemoveStopwords(t, stopwords)))
            k     == IF short # <<>> /\ short # t THEN 1 ELSE 0
        IN  /\ \A i, j \in 1..Len(out) : i < j => out[i] # out[j]
            /\ \A i \in 1..Len(out) : out[i] # <<>>
            /\ k = 1 => out # <<>> /\ out[1] = short
            /\ Len(out) <= k + 5 /\ Len(out) <= 6
            /\ \A i \in (k + 1)..Len(out) :
                  /\ Len(out[i]) >= 2
                  /\ InSeq(out[i], Tokens(t))
                  /\ \A j \in (i + 1)..Len(out) : Len(out[i]) >= Len(out[j])
            /\ t = <<>> => out = <<>>
            /\ t = ExStopTitle => out # <<>> /\ out[1] = ExStopTitleShort

C16_Witness ==
    /\ last.op = "generate_title_variations"
    /\ last.s = ExManyTokens
    /\ Len(last.out) = 6
    /\ last.out[2] = <<109, 110, 111>>

\* what a level holds under each candidate key, whatever its casing
Has1(lv) == lv.c1 # "" /\ ~lv.blank
Has2(lv) == lv.c2 # ""
\* the value one level yields: pick asks per key for the exact and then the
\* case-insensitive spelling; _pick_from asks every key for its exact and
\* variant spellings first and for the case-insensitive ones afterwards
AtLevel(fn, lv, vals) ==
    IF fn = "pick"
    THEN IF Has1(lv) THEN vals[1] ELSE IF Has2(lv) THEN vals[2] ELSE JEmpty
    ELSE IF Has1(lv) /\ lv.c1 = "bookname" THEN vals[1]
         ELSE IF lv.c2 \in {"novelName", "novelname"} THEN vals[2]
         ELSE IF Has1(lv) THEN vals[1]
         ELSE IF Has2(lv) THEN vals[2] ELSE JEmpty

\* C17 as stated: the first candidate key that resolves at any depth wins
\* over a later key that resolves at a shallower depth.
C17_KeyMajor ==
    last.op = "lookup" =>
        LET sh == last.shape
        IN  last.out =
              IF Has1(sh.top) THEN TopValues[1]
              ELSE IF Has1(sh.deep) THEN DeepValues[1]
              ELSE IF Has2(sh.top) THEN TopValues[2]
              ELSE IF Has2(sh.deep) THEN DeepValues[2]
              ELSE JEmpty

\* C17: the lookup is level-major: the candidate keys are tried in argument
\* order on the object itself, and the envelopes (then the first element of
\* a list) are searched only when no candidate key resolves there, so a key
\* found at the shallower level wins over an earlier key found deeper; a
\* payload holding only novelName yields its value for every casing.
C17_LevelMajor ==
    last.op = "lookup" =>
        LET sh == last.shape
        IN  /\ last.out =
                 IF Truthy(AtLevel(last.fn, sh.top, TopValues))
                 THEN AtLevel(last.fn, sh.top, TopValues)
                 ELSE AtLevel(last.fn, sh.deep, DeepValues)
            /\ (sh.env = "none" /\ ~Has1(sh.top) /\ Has2(sh.top))
                   => last.out = TopValues[2]

C17_Witness ==
    /\ last.op = "lookup"
    /\ last.shape.env = "data"
    /\ ~Has1(last.shape.top) /\ Has2(last.shape.top) /\ Has1(last.shape.deep)
    /\ last.out = TopValues[2]

\* an author text that is one name
OneName(a) == a # <<>> /\ \A i \in 1..Len(a) : ~IsDelim(a[i])

\* C18: every recognised envelope of a detail answer around an object with
\* bookname Y and author Z builds a record with title Y and authors [Z].
C18_EnvelopesBuildRecord ==
    (last.op = "detail" /\ OneName(last.author)) =>
        /\ last.out # NoBook
        /\ last.out.title = last.bookname
        /\ last.out.authors = <<last.author>>

C18_Witness ==
    /\ last.op = "detail"
    /\ last.shape = "code_data_book"
    /\ last.bookname = <<89>> /\ last.author = <<90>>
    /\ last.out # NoBook
    /\ last.out.title = <<89>> /\ last.out.authors = <<<<90>>>>

StartsAbsolute(raw) ==
    \/ StartsWith(raw, <<104, 116, 116, 112, 58, 47, 47>>)
    \/ StartsWith(raw, <<104, 116, 116, 112, 115, 58, 47, 47>>)
    \/ StartsWith(raw, <<100, 97, 116, 97, 58>>)
Relative(raw) == raw # <<>> /\ ~StartsAbsolute(raw) /\ raw[1] # 47
SameInAll(raw, out) ==
    /\ NormalizeCover(Strip(raw)) = out
    /\ HtmlCover(Strip(raw)) = out
    /\ normalize_cover_url(raw) = out
CoverPrefixed(raw, out) ==
    /\ StartsWith(raw, <<47, 47>>) => out = <<104, 116, 116, 112, 115, 58>> \o raw
    /\ (StartsWith(raw, <<47>>) /\ ~StartsWith(raw, <<47, 47>>)) => out = TxtOrigin \o raw
    /\ last.raw = ExCover => out = <<104, 116, 116, 112, 115, 58>> \o ExCover

\* C19 as stated: a value that is neither absolute, a data URI,
\* protocol-relative nor root-relative normalizes to the empty text.
C19_RelativeDropped ==
    last.op = "cover" =>
        /\ SameInAll(last.raw, last.out)
        /\ CoverPrefixed(Strip(last.raw), last.out)
        /\ Relative(Strip(last.raw)) => last.out = <<>>

\* C19: the three cover normalisations agree: '//' gets 'https:' prepended,
\* a root-relative value gets the origin prepended, an absolute http(s) URL
\* or data URI is kept, any other non-empty value is resolved against the
\* origin, and only a blank value normalizes to the empty text.
C19_RelativeResolved ==
    last.op = "cover" =>
        /\ SameInAll(last.raw, last.out)
        /\ CoverPrefixed(Strip(last.raw), last.out)
        /\ StartsAbsolute(Strip(last.raw)) => last.out = Strip(last.raw)
        /\ Relative(Strip(last.raw)) => last.out = TxtOrigin \o <<47>> \o Strip(last.raw)
        /\ last.out = <<>> <=> Strip(last.raw) = <<>>

C19_Witness ==
    /\ last.op = "cover" /\ last.impl = "html"
    /\ last.raw = ExRelative
    /\ last.out = TxtOrigin \o <<47>> \o ExRelative

\* the names of a list in the order of their first occurrence
RECURSIVE FirstOccurrences(_)
FirstOccurrences(names) ==
    IF names = <<>> THEN <<>>
    ELSE LET front == FirstOccurrences(SubSeq(names, 1, Len(names) - 1))
         IN  IF InSeq(names[Len(names)], front) THEN front
             ELSE Append(front, names[Len(names)])

\* C20: the authors of a built record are the author text split on the
\* delimiter class, in order of first occurrence, with no empty entry and
\* no name twice.
C20_AuthorsDistinct ==
    (last.op = "detail" /\ last.out # NoBook) =>
        LET names == last.out.authors
        IN  /\ names = FirstOccurrences(SplitDelims(last.author))
            /\ \A i \in 1..Len(names) : names[i] # <<>>
            /\ \A i, j \in 1..Len(names) : i < j => names[i] # names[j]

Distinct(seq) == \A i, j \in 1..Len(seq) : i < j => seq[i] # seq[j]

\* C21: the tags of every record the detail stage returns hold no
\* duplicate, on the JSON path with and without enrichment and on the web
\* page path.
C21_TagsDistinct ==
    (last.op \in {"tagged", "parse_book"} /\ last.out # NoBook) => Distinct(last.out.tags)

BlankTitle(page) ==
    \A i \in 1..Len(page.title_elements) : Strip(JoinSpace(page.title_elements[i])) = <<>>

\* C22: the page parser returns nothing for a URL without a numeric novelid
\* and for a page without a non-empty title; a page with a title and no
\* author element gives a record with no authors; every record it returns
\* has a non-empty id and a non-empty title.
C22_PageGate ==
    last.op = "parse_book" =>
        /\ DigitRun(last.url.novelid) = <<>> => last.out = NoBook
        /\ BlankTitle(last.page) => last.out = NoBook
        /\ (/\ last.page.doc /\ DigitRun(last.url.novelid) # <<>>
            /\ ~BlankTitle(last.page) /\ last.page.author_elements = <<>>)
              => last.out # NoBook /\ last.out.authors = <<>>
        /\ last.out # NoBook => last.out.id # <<>> /\ last.out.title # <<>>

C22_Witness ==
    /\ last.op = "parse_book"
    /\ last.url = DetailUrl(TxtId12)
    /\ last.page.author_elements = <<>>
    /\ last.out # NoBook /\ last.out.authors = <<>> /\ last.out.title = TxtT

\* the tags of the record before the enrichment, the genre the enrichment
\* resolves and the auxiliary tags it parses, from the two answers
TagsBefore(c) ==
    (IF c.category # <<>> THEN <<c.category>> ELSE <<>>) \o SplitComma(c.tags)
Genre(c) == IF c.class # <<>> THEN c.class ELSE c.category
AuxTags(c) ==
    IF c.novelTags # <<>> THEN SplitDelims(c.novelTags) ELSE SplitDelims(c.tags)
RECURSIVE Without(_, _)
Without(seq, x) ==
    IF seq = <<>> THEN <<>>
    ELSE (IF seq[1] = x THEN <<>> ELSE <<seq[1]>>) \o Without(Tail(seq), x)

\* C26: after an enrichment that resolves a genre g or auxiliary tags, the
\* tags are g first, then the tags the record had (other than g) in their
\* order, then the auxiliary tags not yet present in first-seen order, and
\* no tag occurs twice.
C26_GenreFirstTagsMerged ==
    (/\ last.op = "tagged" /\ last.enriched /\ last.out # NoBook
     /\ (Genre(last) # <<>> \/ AuxTags(last) # <<>>)) =>
        /\ last.out.tags =
              TextsToJ(FirstOccurrences(
                  (IF Genre(last) # <<>> THEN <<Genre(last)>> ELSE <<>>)
                  \o Without(TagsBefore(last), Genre(last)) \o AuxTags(last)))
        /\ Genre(last) # <<>> => last.out.tags[1] = JStr(Genre(last))
        /\ Distinct(last.out.tags)

C26_Witness ==
    /\ last.op = "tagged" /\ last.enriched
    /\ last.class = <<71>> /\ last.tags = <<120, 44, 121>> /\ last.novelTags = <<122, 32, 121>>
    /\ last.category = <<>>
    /\ last.out # NoBook
    /\ last.out.tags = TextsToJ(<< <<71>>, <<120>>, <<121>>, <<122>> >>)

\* C23: the primary search of a title reaches the search endpoint with the
\* intent parse_search_keyword assigns to the title as it was given.
C23_PrimaryKeepsIntent ==
    \A k \in 1..Len(searches) :
        (searches[k].stage = "primary" /\ title # <<>>) =>
            searches[k].type = parse_search_keyword(title)[2]

\* C25: the author-only retry reaches the search endpoint as an author
\* search for the space-joined cleaned authors, under every configuration.
C25_AuthorRetryIsAuthorSearch ==
    \A k \in 1..Len(searches) :
        searches[k].stage = "author" =>
            /\ searches[k].type = SEARCH_TYPE_MAP.author
            /\ searches[k].keyword = JoinSpace(cleaned_authors)

\* the answer lists at least one book that has an id
ListsBook(res) ==
    /\ StatusOk(res)
    /\ LET e == _extract_books_from_json(LoadsOrNone(res.body))
       IN  /\ ~e.raised /\ IsList(e.list)
           /\ \E i \in 1..Len(e.list.v) :
                 /\ IsDict(e.list.v[i])
                 /\ Truthy(Or(Get(e.list.v[i], "novelid"),
                              Or(Get(e.list.v[i], "bookId"), Get(e.list.v[i], "id"))))

\* C24: the search stage returns at most as many candidates as the pool
\* has threads (the configured limit clamped to 1..20), and at least one
\* when the answering endpoint lists a book with an id.
C24_CandidatesWithinPool ==
    last.op = "search" =>
        /\ Len(last.out.urls) <= max_workers_safe(last.max_workers)
        /\ (ListsBook(last.res1) \/ ListsBook(last.res2)) => last.out.urls # <<>>

\* the lines of a text
RECURSIVE LinesOf(_)
LinesOf(text) ==
    LET i == FindFrom(text, 1, 10)
    IN  IF i = 0 THEN <<text>>
        ELSE <<SubSeq(text, 1, i - 1)>> \o LinesOf(SubSeqFrom(text, i + 1))
SignLines(text) ==
    {i \in 1..Len(LinesOf(text)) : StartsWith(LinesOf(text)[i], Label.sign)}

\* the isSign values that count as signed
AllDigits(t) == t # <<>> /\ \A i \in 1..Len(t) : t[i] \in 48..57
CountsAsSigned(v) ==
    CASE v.t = "b" -> v.v
      [] v.t = "n" -> v.v > 0
      [] v.t = "s" ->
            \/ LowerText(Strip(v.v)) \in {<<49>>, <<116, 114, 117, 101>>, <<121, 101, 115>>}
            \/ (AllDigits(Strip(v.v)) /\ \E i \in 1..Len(Strip(v.v)) : Strip(v.v)[i] # 48)
      [] OTHER -> FALSE

StagesRun == [k \in 1..Len(searches) |-> searches[k].stage]
VariationStages == [k \in 1..Len(variations) |-> "variation"]

\* C28: when the login cookie yields no session id, identify by title or
\* authors makes no search request, gets no candidate from any query, starts
\* no detail fetch, and ends with nothing on the result queue after the
\* primary search, the author-only retry (when authors are given) and every
\* title variation (when a title is given) have each run once.
C28_NoSessionNoRequest ==
    (/\ extract_sid_from_cookie(login_cookie) = <<>>
     /\ get_book_url(identifiers) = NoUrl) =>
        /\ requests = 0 /\ candidates = <<>>
        /\ queue = <<>> /\ running = <<>> /\ completed = 0 /\ produced = <<>>
        /\ books = <<>> /\ result_queue = <<>>
        /\ ~raised
        /\ (pc = "done" /\ ~NothingGiven) =>
              StagesRun = <<"primary">>
                          \o (IF cleaned_authors # <<>> THEN <<"author">> ELSE <<>>)
                          \o (IF cleaned_title # <<>> THEN VariationStages ELSE <<>>)

C28_Witness ==
    /\ login_cookie = TxtCookieEver /\ sid = <<>>
    /\ pc = "done" /\ requests = 0 /\ result_queue = <<>>
    /\ StagesRun = <<"primary", "author">> \o VariationStages
    /\ VariationStages # <<>>

SearchCount(stg) == Cardinality({k \in 1..Len(searches) : searches[k].stage = stg})
StageRank(stg) == CASE stg = "primary" -> 1 [] stg = "author" -> 2 [] OTHER -> 3

\* the bounds of one identify call
WithinCounts ==
    /\ SearchCount("primary") <= 1
    /\ SearchCount("author") <= 1
    /\ SearchCount("variation") <= 6
    /\ Len(searches) <= 8
    /\ requests <= 2
    /\ \A j \in 1..Len(searches), k \in 1..Len(searches) :
          j < k => /\ StageRank(searches[j].stage) <= StageRank(searches[k].stage)
                   /\ searches[k].stage # "primary"
    /\ (pc = "fanout" => completed + Len(running) + Len(queue) = Len(candidates))
    /\ (last.op = "load_book" =>
          /\ Len(last.out.tried) <= 12
          /\ last.out.others <= Len(last.out.tried)
          /\ (last.out.book = NoBook /\ extract_novelid(last.url) # <<>> => last.out.html))

\* a step of identify, of a pool thread or of the fetch script can be taken:
\* at its start one of the three entries applies; in the fan-out a task can
\* start, a running task can finish, or every task is over and the next
\* stage follows; the loop over the result runs on its own
CanStep ==
    \/ pc = "start"
    \/ /\ pc = "fanout"
       /\ \/ queue # <<>> /\ Len(running) < max_workers_safe(max_workers)
          \/ running # <<>>
          \/ /\ AllCompleted(queue, running)
             /\ NextStage(stage, var_i, books) \in {"author", "emit"}
                \/ (NextStage(stage, var_i, books) = "variation" /\ var_i < Len(variations))
    \/ pc \in {"emit", "put"}

\* what is left to do: the searches not yet made and the tasks not yet over
\* in the fan-out, the records not yet put in the loop over the result
Measure ==
    CASE pc = "start"  -> 3000
      [] pc = "fanout" -> 1000 + 100 * (8 - Len(searches)) + 2 * Len(queue) + Len(running)
      [] pc = "emit"   -> 2 * (Len(books) + 1 - emit_i) + 1
      [] pc = "put"    -> 2 * (Len(books) + 1 - emit_i)
      [] OTHER         -> 0

Progressing ==
    /\ Measure >= 0
    /\ (pc = "fanout" => 2 * Len(queue) + Len(running) < 100)
    /\ (pc # "done" => CanStep /\ Measure > 0)

\* C29: with every HTTP call returning or timing out, identify reaches its
\* end: until then a step can always be taken, and every step other than
\* the caller setting the abort event brings the end nearer.  On the way
\* it makes at most one primary search, one author-only search and six
\* variation searches (eight in all) of at most two requests each, never
\* goes back to an earlier stage, fetches each candidate once, with at most
\* 12 JSON detail requests, at most one enrichment request per detail
\* request, and the web page only after them.
C29_ReachesDoneWithinCounts ==
    /\ [](WithinCounts /\ Progressing)
    /\ [][abort' = abort => Measure' < Measure]_vars

C29_Witness ==
    /\ pc = "done" /\ Len(searches) = 8 /\ SearchCount("variation") = 6
    /\ requests = 2
====
